---- MODULE Spec2Model ----
(***************************************************************************)
(* OpenSCAD Studio, Tauri backend: the editor state, the AI edit pipeline  *)
(* (validate_edit / apply_edit), the checkpoint history and the render     *)
(* preview with its cache.                                                 *)
(*                                                                         *)
(* Strings are sequences of one-character strings, so that substring       *)
(* search, replacement and line counting are computed as the Rust standard *)
(* library computes them.  Option values are <<>> (None) and <<x>>         *)
(* (Some(x)).                                                              *)
(***************************************************************************)
EXTENDS Integers, Sequences, FiniteSets, TLC

None == << >>

Some(x) == << x >>

(***************************************************************************)
(* Bounds of the model.                                                    *)
(***************************************************************************)
\* number of checkpoint ids (uuids) handed out in one behaviour
MaxIds == 2

(***************************************************************************)
(* String functions of the Rust standard library used by the commands.     *)
(***************************************************************************)
\* p occurs in t at (0-based) offset i
MatchAt(t, p, i) ==
    /\ i + Len(p) <= Len(t)
    /\ SubSeq(t, i + 1, i + Len(p)) = p

\* str::contains
Contains(t, p) == \E i \in 0..Len(t) : MatchAt(t, p, i)

\* the offset of the first match of p in t at or after offset i, or -1
NextMatch(t, p, i) ==
    LET later == {j \in i..Len(t) : MatchAt(t, p, j)}
    IN  IF later = {} THEN -1
        ELSE CHOOSE j \in later : \A k \in later : j <= k

\* the matches str::matches and str::replace see from offset i on: they are
\* searched left to right and the search resumes after the end of a match,
\* so matches do not overlap
RECURSIVE MatchesFrom(_, _, _)
MatchesFrom(t, p, i) ==
    LET j == NextMatch(t, p, i)
    IN  IF j < 0 THEN 0 ELSE 1 + MatchesFrom(t, p, j + Len(p))

\* str::matches(p).count(); the empty pattern matches at every character
\* boundary
MatchesCount(t, p) ==
    IF Len(p) = 0 THEN Len(t) + 1 ELSE MatchesFrom(t, p, 0)

RECURSIVE ReplaceFrom(_, _, _, _)
ReplaceFrom(t, p, n, i) ==
    LET j == NextMatch(t, p, i)
    IN  IF j < 0 THEN SubSeq(t, i + 1, Len(t))
        ELSE SubSeq(t, i + 1, j) \o n \o ReplaceFrom(t, p, n, j + Len(p))

\* str::replace: every match is replaced; for the empty pattern n is
\* inserted at every character boundary
Replace(t, p, n) ==
    IF Len(p) = 0
    THEN [k \in 1..((Len(t) + 1) * Len(n) + Len(t)) |->
            LET q == (k - 1) \div (Len(n) + 1)
                r == (k - 1) % (Len(n) + 1)
            IN  IF r < Len(n) THEN n[r + 1] ELSE t[q + 1]]
    ELSE ReplaceFrom(t, p, n, 0)

\* str::lines().count(): one line per "\n", plus one for a non-empty rest
LinesCount(s) ==
    Cardinality({i \in 1..Len(s) : s[i] = "\n"})
      + (IF Len(s) > 0 /\ s[Len(s)] # "\n" THEN 1 ELSE 0)

Max(a, b) == IF a > b THEN a ELSE b

(***************************************************************************)
(* Texts and diagnostics the commands are called with.                     *)
(***************************************************************************)
\* a string of n newlines
Newlines(n) == [i \in 1..n |-> "\n"]

\* EditorState::default, current_code
DefaultCode ==
    << "/", "/", " ", "T", "y", "p", "e", " ", "y", "o", "u", "r", " ",
       "O", "p", "e", "n", "S", "C", "A", "D", " ", "c", "o", "d", "e",
       " ", "h", "e", "r", "e", "\n", "c", "u", "b", "e", "(", "[", "1",
       "0", ",", " ", "1", "0", ",", " ", "1", "0", "]", ")", ";" >>

\* the size ceiling of one edit, in lines
MaxLinesChanged == 120

Diag(sev, line, msg) ==
    [severity |-> sev, line |-> line, col |-> None, message |-> msg]

E1 == Diag("Error", Some(1), "ERROR: e1, line 1")

E2 == Diag("Error", Some(2), "ERROR: e2, line 2")

W1 == Diag("Warning", None, "WARNING: w1")

\* DiagnosticSeverity::is_error
is_error(d) == d.severity = "Error"

\* .iter().filter(|d| d.severity.is_error()).count()
ErrorCount(ds) == Cardinality({i \in 1..Len(ds) : is_error(ds[i])})

(***************************************************************************)
(* Inputs of the commands.                                                 *)
(***************************************************************************)
T_aaa == << "a", "a", "a" >>

T_ab == << "a", "b" >>

\* code the frontend sends with update_editor_state
Codes == { T_aaa }

\* (old_string, new_string) arguments of apply_edit
Edits ==
    { << << "a" >>, << "b" >> >>,
      << << "c", "u", "b", "e" >>, << "b" >> >>,
      << << "c", "u", "b", "e" >>, Newlines(MaxLinesChanged + 1) >> }

\* stderr of the external OpenSCAD process, already split into the lines
\* that parse_openscad_stderr turns into diagnostics
DiagLists == { << >>, << E1 >>, << W1, E2 >> }

(***************************************************************************)
(* State.                                                                  *)
(***************************************************************************)
VARIABLES
    current_code,       \* EditorState.current_code
    diagnostics,        \* EditorState.diagnostics
    last_preview_path,  \* EditorState.last_preview_path
    checkpoints,        \* EditorHistory.checkpoints
    current_index,      \* EditorHistory.current_index
    next_id,            \* supply of fresh checkpoint ids (uuid v4)
    entries,            \* RenderCache.entries
    files,              \* artifact files present in the cache directory
    now,                \* SystemTime::now(), in seconds
    ae,                 \* the apply_edit task: position and local variables
    result,             \* the command that finished last and the value it
                        \* returned (for validate_edit also its arguments,
                        \* for render_preview also the cache line it logs);
                        \* NoResult while apply_edit runs
    emitted,            \* events emitted by the command that ran last
    diag_of,            \* history variable: the text whose build produced
                        \* the list now in EditorState.diagnostics
    checkpoint_diag_of, \* history variable: for each checkpoint id, the
                        \* text whose build produced its diagnostics
    ai,                 \* the AI query session: the token in AiAgentState
                        \* and the background task spawned by send_ai_query
    threads             \* for each thread, the command it runs and its
                        \* position among the lock operations of the command

vars == << current_code, diagnostics, last_preview_path, checkpoints,
           current_index, next_id, entries, files, now, ae, result,
           emitted, diag_of, checkpoint_diag_of, ai, threads >>

editor_vars == << current_code, diagnostics, last_preview_path, diag_of >>

history_vars == << checkpoints, current_index, next_id,
                   checkpoint_diag_of >>

cache_vars == << entries, files, now >>

\* apply_edit is not running
AeIdle ==
    [pc |-> "idle", old_string |-> << >>, new_string |-> << >>,
     current_code |-> << >>, diagnostics |-> << >>, checkpoint_id |-> None,
     new_code |-> << >>, old_error_count |-> 0, compiled |-> "",
     test_diagnostics |-> << >>, value |-> << >>, diag_of |-> << >>,
     held |-> {}]

NoResult == [op |-> "none"]

\* AiAgentState::new: no token, and no query task.  executed: the indices
\* of the tool calls of the turn that run_openai_query has executed, in
\* order.  earlier: the tokens of the sessions whose task was running when
\* a later send_ai_query replaced their token in AiAgentState
AiIdle ==
    [pc |-> "idle", provider |-> "", slot |-> FALSE, cancelled |-> FALSE,
     requests |-> 0, chunks |-> 0, pending |-> 0, tools |-> 0,
     outcome |-> "", executed |-> << >>, earlier |-> << >>]

\* number of threads that run commands at the same time
MaxThreads == 2

Threads == 1..MaxThreads

\* the thread runs no command
ThreadIdle == [cmd |-> "idle", pc |-> 0]

\* EditorState::default, EditorHistory::new, RenderCache::new
Init ==
    /\ current_code = DefaultCode
    /\ diagnostics = << >>
    /\ last_preview_path = << >>
    /\ checkpoints = << >>
    /\ current_index = None
    /\ next_id = 1
    /\ checkpoint_diag_of = << >>
    /\ entries = << >>
    /\ files = {}
    /\ now = 0
    /\ ae = AeIdle
    /\ result = NoResult
    /\ emitted = << >>
    /\ diag_of = DefaultCode
    /\ ai = AiIdle
    /\ threads = [t \in Threads |-> ThreadIdle]

(***************************************************************************)
(* cmd/ai_tools.rs                                                         *)
(***************************************************************************)
\* error strings of EditValidation / ApplyEditResult; n is the number the
\* message is formatted with
ErrMsg(kind, n) == Some([kind |-> kind, n |-> n])

update_editor_state(code) ==
    /\ current_code' = code
    /\ result' = [op |-> "update_editor_state"]
    /\ emitted' = << >>
    /\ UNCHANGED << diagnostics, last_preview_path, diag_of, history_vars,
                    cache_vars, ae, ai, threads >>

\* EditValidation with the ceiling exclusive: an edit of exactly
\* MaxLinesChanged lines is refused
EditValidation_CeilingExclusive(code, old_string, new_string) ==
    LET occurrences == MatchesCount(code, old_string)
        lines_changed == Max(LinesCount(old_string), LinesCount(new_string))
    IN  IF ~Contains(code, old_string)
        THEN [ok |-> FALSE, error |-> ErrMsg("NotFound", 0),
              lines_changed |-> 0]
        ELSE IF occurrences > 1
        THEN [ok |-> FALSE, error |-> ErrMsg("NotUnique", occurrences),
              lines_changed |-> 0]
        ELSE IF lines_changed >= MaxLinesChanged
        THEN [ok |-> FALSE, error |-> ErrMsg("TooLarge", lines_changed),
              lines_changed |-> lines_changed]
        ELSE [ok |-> TRUE, error |-> None, lines_changed |-> lines_changed]

\* the EditValidation validate_edit returns for a given current code
EditValidation(code, old_string, new_string) ==
    LET occurrences == MatchesCount(code, old_string)
        old_lines == LinesCount(old_string)
        new_lines == LinesCount(new_string)
        lines_changed == Max(old_lines, new_lines)
    IN  IF ~Contains(code, old_string)
        THEN [ok |-> FALSE, error |-> ErrMsg("NotFound", 0),
              lines_changed |-> 0]
        ELSE IF occurrences > 1
        THEN [ok |-> FALSE, error |-> ErrMsg("NotUnique", occurrences),
              lines_changed |-> 0]
        ELSE IF lines_changed > MaxLinesChanged
        THEN [ok |-> FALSE, error |-> ErrMsg("TooLarge", lines_changed),
              lines_changed |-> lines_changed]
        ELSE [ok |-> TRUE, error |-> None, lines_changed |-> lines_changed]

validate_edit(old_string, new_string) ==
    /\ result' = [op |-> "validate_edit", old_string |-> old_string,
                  new_string |-> new_string,
                  value |-> EditValidation(current_code, old_string,
                                           new_string)]
    /\ emitted' = << >>
    /\ UNCHANGED << editor_vars, history_vars, cache_vars, ae, ai, threads >>

(***************************************************************************)
(* history.rs: EditorHistory                                               *)
(***************************************************************************)
MAX_CHECKPOINTS == 50

EditorCheckpoint(id, code, diags, description, change_type) ==
    [id |-> id, code |-> code, diagnostics |-> diags,
     description |-> description, change_type |-> change_type]

\* VecDeque::truncate
Truncate(s, n) == IF n >= Len(s) THEN s ELSE SubSeq(s, 1, n)

\* History_create_checkpoint without the eviction
History_create_checkpoint_NoEviction(cps, index, cp) ==
    LET kept == IF index # None THEN Truncate(cps, index[1] + 1) ELSE cps
    IN  Append(kept, cp)

\* History_create_checkpoint keeping the checkpoints after the cursor
History_create_checkpoint_NoTruncate(cps, index, cp) ==
    LET pushed == Append(cps, cp)
    IN  IF Len(pushed) > MAX_CHECKPOINTS THEN Tail(pushed) ELSE pushed

\* History_create_checkpoint truncating to the checkpoints before the cursor
History_create_checkpoint_TruncateAtCursor(cps, index, cp) ==
    LET kept == IF index # None THEN Truncate(cps, index[1]) ELSE cps
        pushed == Append(kept, cp)
    IN  IF Len(pushed) > MAX_CHECKPOINTS THEN Tail(pushed) ELSE pushed

\* EditorHistory::create_checkpoint, the checkpoints it leaves (the cursor
\* becomes None and the id of cp is returned)
History_create_checkpoint(cps, index, cp) ==
    LET kept == IF index # None THEN Truncate(cps, index[1] + 1) ELSE cps
        pushed == Append(kept, cp)
    IN  IF Len(pushed) > MAX_CHECKPOINTS THEN Tail(pushed) ELSE pushed

\* History_undo stepping from the head to the last checkpoint
History_undo_FromHeadToLast(cps, index) ==
    IF Len(cps) = 0 THEN None
    ELSE IF index # None
         THEN (IF index[1] > 0 THEN Some(index[1] - 1) ELSE None)
         ELSE (IF Len(cps) > 1 THEN Some(Len(cps) - 1) ELSE None)

\* EditorHistory::undo: the new cursor, or None when undo returns None
History_undo(cps, index) ==
    IF Len(cps) = 0 THEN None
    ELSE IF index # None
         THEN (IF index[1] > 0 THEN Some(index[1] - 1) ELSE None)
         ELSE (IF Len(cps) > 1 THEN Some(Len(cps) - 2) ELSE None)

\* History_redo staying on the last checkpoint instead of going back to
\* the head
History_redo_NoReturnToHead(cps, index) ==
    IF index # None /\ index[1] + 1 < Len(cps)
    THEN [ok |-> TRUE, index |-> Some(index[1] + 1), at |-> index[1] + 1]
    ELSE IF index # None /\ index[1] + 1 = Len(cps)
    THEN [ok |-> TRUE, index |-> index, at |-> Len(cps) - 1]
    ELSE [ok |-> FALSE, index |-> index, at |-> 0]

\* EditorHistory::redo: "fail" when redo returns None, else the new cursor
\* (None: back to latest) and the 0-based position of the returned checkpoint
History_redo(cps, index) ==
    IF index # None /\ index[1] + 1 < Len(cps)
    THEN [ok |-> TRUE, index |-> Some(index[1] + 1), at |-> index[1] + 1]
    ELSE IF index # None /\ index[1] + 1 = Len(cps)
    THEN [ok |-> TRUE, index |-> None, at |-> Len(cps) - 1]
    ELSE [ok |-> FALSE, index |-> index, at |-> 0]

\* History_restore_to seeking the checkpoint before the one asked for
History_restore_to_OneBefore(cps, id) ==
    IF \E i \in 1..Len(cps) : cps[i].id = id
    THEN LET at == CHOOSE i \in 1..Len(cps) : cps[i].id = id
         IN  Some(IF at > 1 THEN at - 2 ELSE 0)
    ELSE None

\* EditorHistory::restore_to: position of the first checkpoint with this id
History_restore_to(cps, id) ==
    IF \E i \in 1..Len(cps) : cps[i].id = id
    THEN Some((CHOOSE i \in 1..Len(cps) :
                  /\ cps[i].id = id
                  /\ \A j \in 1..(i - 1) : cps[j].id # id) - 1)
    ELSE None

\* EditorHistory::can_undo
History_can_undo(cps, index) ==
    IF Len(cps) = 0 THEN FALSE
    ELSE IF index # None THEN index[1] > 0
    ELSE Len(cps) > 1

\* History_can_redo that refuses on the last checkpoint
History_can_redo_NotOnLast(cps, index) ==
    IF index # None
    THEN [underflow |-> Len(cps) = 0,
          value |-> Len(cps) > 0 /\ index[1] < Len(cps) - 1]
    ELSE [underflow |-> FALSE, value |-> FALSE]

\* EditorHistory::can_redo; underflow: len() - 1 is computed on an empty
\* sequence (a panic, or usize::MAX without overflow checks)
History_can_redo(cps, index) ==
    IF index # None
    THEN [underflow |-> Len(cps) = 0,
          value |-> \/ Len(cps) = 0
                    \/ index[1] < Len(cps) - 1
                    \/ index[1] = Len(cps) - 1]
    ELSE [underflow |-> FALSE, value |-> FALSE]

\* EditorHistory::get_by_id: None, or the first checkpoint with this id
History_get_by_id(cps, id) ==
    IF \E i \in 1..Len(cps) : cps[i].id = id
    THEN Some(cps[CHOOSE i \in 1..Len(cps) :
                     /\ cps[i].id = id
                     /\ \A j \in 1..(i - 1) : cps[j].id # id])
    ELSE None

\* History_get_diff that looks up from_id only
History_get_diff_FromOnly(cps, from_id, to_id) ==
    LET from == History_get_by_id(cps, from_id)
    IN  IF from = None THEN None
        ELSE Some([from_id |-> from_id, to_id |-> to_id,
                   from_code |-> from[1].code, to_code |-> from[1].code])

\* EditorHistory::get_diff: None, or the CheckpointDiff, of which the two
\* ids and the two texts that TextDiff::from_lines compares are kept
History_get_diff(cps, from_id, to_id) ==
    LET from == History_get_by_id(cps, from_id)
        to == History_get_by_id(cps, to_id)
    IN  IF from = None THEN None
        ELSE IF to = None THEN None
        ELSE Some([from_id |-> from_id, to_id |-> to_id,
                   from_code |-> from[1].code, to_code |-> to[1].code])

(***************************************************************************)
(* cmd/history.rs: the history commands                                    *)
(***************************************************************************)
HistoryRestoreEvent(cp) == [name |-> "history:restore", payload |-> cp]

\* history_state.history.lock() returns: apply_edit does not hold the lock
HistoryUnlocked == "history" \notin ae.held

\* the frontend passes the code; the diagnostics are read from EditorState
create_checkpoint(code, description, change_type) ==
    /\ HistoryUnlocked
    /\ LET cp == EditorCheckpoint(next_id, code, diagnostics, description,
                                  change_type)
       IN  /\ checkpoints' = History_create_checkpoint(checkpoints,
                                                       current_index, cp)
           /\ current_index' = None
           /\ next_id' = next_id + 1
           /\ checkpoint_diag_of' = Append(checkpoint_diag_of, diag_of)
           /\ result' = [op |-> "create_checkpoint", ok |-> TRUE,
                         value |-> cp.id]
    /\ emitted' = << >>
    /\ UNCHANGED << editor_vars, cache_vars, ae, ai, threads >>

\* PropagateCheckpoint without the event
PropagateCheckpoint_NoEvent(op, cp) ==
    /\ current_code' = cp.code
    /\ diagnostics' = cp.diagnostics
    /\ diag_of' = checkpoint_diag_of[cp.id]
    /\ emitted' = << >>
    /\ result' = [op |-> op, ok |-> TRUE, value |-> cp]
    /\ UNCHANGED last_preview_path

\* PropagateCheckpoint copying the code only
PropagateCheckpoint_CodeOnly(op, cp) ==
    /\ current_code' = cp.code
    /\ emitted' = << HistoryRestoreEvent(cp) >>
    /\ result' = [op |-> op, ok |-> TRUE, value |-> cp]
    /\ UNCHANGED << diagnostics, diag_of, last_preview_path >>

\* the part undo, redo and restore_to_checkpoint share: copy the checkpoint
\* into EditorState, emit history:restore, return the checkpoint
PropagateCheckpoint(op, cp) ==
    /\ current_code' = cp.code
    /\ diagnostics' = cp.diagnostics
    /\ diag_of' = checkpoint_diag_of[cp.id]
    /\ emitted' = << HistoryRestoreEvent(cp) >>
    /\ result' = [op |-> op, ok |-> TRUE, value |-> cp]
    /\ UNCHANGED last_preview_path

HistoryCommandFails(op) ==
    /\ emitted' = << >>
    /\ result' = [op |-> op, ok |-> FALSE]
    /\ UNCHANGED << editor_vars, current_index >>

undo ==
    /\ HistoryUnlocked
    /\ LET target == History_undo(checkpoints, current_index)
       IN  IF target # None
           THEN /\ current_index' = target
                /\ PropagateCheckpoint("undo", checkpoints[target[1] + 1])
           ELSE HistoryCommandFails("undo")
    /\ UNCHANGED << checkpoints, next_id, checkpoint_diag_of, cache_vars,
                    ae, ai, threads >>

redo ==
    /\ HistoryUnlocked
    /\ LET r == History_redo(checkpoints, current_index)
       IN  IF r.ok
           THEN /\ current_index' = r.index
                /\ PropagateCheckpoint("redo", checkpoints[r.at + 1])
           ELSE HistoryCommandFails("redo")
    /\ UNCHANGED << checkpoints, next_id, checkpoint_diag_of, cache_vars,
                    ae, ai, threads >>

restore_to_checkpoint(checkpoint_id) ==
    /\ HistoryUnlocked
    /\ LET target == History_restore_to(checkpoints, checkpoint_id)
       IN  IF target # None
           THEN /\ current_index' = target
                /\ PropagateCheckpoint("restore_to_checkpoint",
                                       checkpoints[target[1] + 1])
           ELSE HistoryCommandFails("restore_to_checkpoint")
    /\ UNCHANGED << checkpoints, next_id, checkpoint_diag_of, cache_vars,
                    ae, ai, threads >>

\* Ok(history.can_undo())
can_undo ==
    /\ HistoryUnlocked
    /\ result' = [op |-> "can_undo", ok |-> TRUE,
                  value |-> History_can_undo(checkpoints, current_index)]
    /\ emitted' = << >>
    /\ UNCHANGED << editor_vars, history_vars, cache_vars, ae, ai, threads >>

\* Ok(history.can_redo()); ok is FALSE when the subtraction underflows
can_redo ==
    /\ HistoryUnlocked
    /\ LET r == History_can_redo(checkpoints, current_index)
       IN  result' = [op |-> "can_redo", ok |-> ~r.underflow,
                      value |-> r.value]
    /\ emitted' = << >>
    /\ UNCHANGED << editor_vars, history_vars, cache_vars, ae, ai, threads >>

\* clear that empties the sequence and keeps the cursor
clear_KeepsCursor ==
    /\ HistoryUnlocked
    /\ checkpoints' = << >>
    /\ result' = [op |-> "clear", ok |-> TRUE]
    /\ emitted' = << >>
    /\ UNCHANGED << editor_vars, current_index, next_id, checkpoint_diag_of,
                    cache_vars, ae, ai, threads >>

\* EditorHistory::clear, on the history under its lock
clear ==
    /\ HistoryUnlocked
    /\ checkpoints' = << >>
    /\ current_index' = None
    /\ result' = [op |-> "clear", ok |-> TRUE]
    /\ emitted' = << >>
    /\ UNCHANGED << editor_vars, next_id, checkpoint_diag_of, cache_vars,
                    ae, ai, threads >>

\* Err("Failed to generate diff") when get_diff returns None
get_checkpoint_diff(from_id, to_id) ==
    /\ HistoryUnlocked
    /\ LET diff == History_get_diff(checkpoints, from_id, to_id)
       IN  result' = [op |-> "get_checkpoint_diff", ok |-> diff # None,
                      from_id |-> from_id, to_id |-> to_id, value |-> diff]
    /\ emitted' = << >>
    /\ UNCHANGED << editor_vars, history_vars, cache_vars, ae, ai, threads >>

(***************************************************************************)
(* cmd/ai_tools.rs: apply_edit, one action per lock acquisition, await and *)
(* event.                                                                  *)
(***************************************************************************)
ApplyEditResult(success, error, diags, checkpoint_id) ==
    [success |-> success, error |-> error, diagnostics |-> diags,
     checkpoint_id |-> checkpoint_id]

\* return Ok(ApplyEditResult{..}): the handler is at its end and holds the
\* value it returns
AeReturn(value) ==
    /\ ae' = [ae EXCEPT !.pc = "return", !.value = value]
    /\ UNCHANGED result

\* the value reaches the caller and the task ends
AeDone ==
    /\ ae.pc = "return"
    /\ result' = [op |-> "apply_edit", value |-> ae.value]
    /\ ae' = AeIdle
    /\ UNCHANGED << editor_vars, history_vars, cache_vars, emitted, ai, threads >>

\* the command is invoked; let current_code = state.current_code.lock()..
apply_edit(old_string, new_string) ==
    /\ ae.pc = "idle"
    /\ next_id <= MaxIds
    /\ ae' = [AeIdle EXCEPT !.pc = "read_diagnostics",
                            !.old_string = old_string,
                            !.new_string = new_string,
                            !.current_code = current_code]
    /\ emitted' = << >>
    /\ result' = NoResult
    /\ UNCHANGED << editor_vars, history_vars, cache_vars, ai, threads >>

\* let diagnostics = state.diagnostics.lock().unwrap().clone()
AeReadDiagnostics ==
    /\ ae.pc = "read_diagnostics"
    /\ ae' = [ae EXCEPT !.pc = "lock_history",
                        !.diagnostics = diagnostics,
                        !.diag_of = diag_of]
    /\ UNCHANGED << editor_vars, history_vars, cache_vars, result, emitted, ai, threads >>

\* let mut history = history_state.history.lock().unwrap(): the guard
\* lives to the end of the block
AeLockHistory ==
    /\ ae.pc = "lock_history"
    /\ ae' = [ae EXCEPT !.pc = "create_checkpoint",
                        !.held = ae.held \cup { "history" }]
    /\ UNCHANGED << editor_vars, history_vars, cache_vars, result, emitted, ai, threads >>

\* AeCreateCheckpoint with a guard that lives to the end of the function
AeCreateCheckpoint_KeepsLock ==
    /\ ae.pc = "create_checkpoint"
    /\ LET cp == EditorCheckpoint(next_id, ae.current_code, ae.diagnostics,
                                  "Before AI edit", "Ai")
       IN  /\ checkpoints' = History_create_checkpoint(checkpoints,
                                                       current_index, cp)
           /\ current_index' = None
           /\ next_id' = next_id + 1
           /\ checkpoint_diag_of' = Append(checkpoint_diag_of, ae.diag_of)
           /\ ae' = [ae EXCEPT !.pc = "validate",
                               !.checkpoint_id = Some(cp.id)]
    /\ UNCHANGED << editor_vars, cache_vars, result, emitted, ai, threads >>

\* AeCreateCheckpoint without the reset of the cursor
AeCreateCheckpoint_KeepsCursor ==
    /\ ae.pc = "create_checkpoint"
    /\ LET cp == EditorCheckpoint(next_id, ae.current_code, ae.diagnostics,
                                  "Before AI edit", "Ai")
       IN  /\ checkpoints' = History_create_checkpoint(checkpoints,
                                                       current_index, cp)
           /\ next_id' = next_id + 1
           /\ checkpoint_diag_of' = Append(checkpoint_diag_of, ae.diag_of)
           /\ ae' = [ae EXCEPT !.pc = "validate",
                               !.checkpoint_id = Some(cp.id),
                               !.held = ae.held \ { "history" }]
    /\ UNCHANGED << editor_vars, current_index, cache_vars, result,
                    emitted, ai, threads >>

\* history.create_checkpoint(current_code, diagnostics, "Before AI edit", Ai)
\* and the end of the block, where the guard is dropped
AeCreateCheckpoint ==
    /\ ae.pc = "create_checkpoint"
    /\ LET cp == EditorCheckpoint(next_id, ae.current_code, ae.diagnostics,
                                  "Before AI edit", "Ai")
       IN  /\ checkpoints' = History_create_checkpoint(checkpoints,
                                                       current_index, cp)
           /\ current_index' = None
           /\ next_id' = next_id + 1
           /\ checkpoint_diag_of' = Append(checkpoint_diag_of, ae.diag_of)
           /\ ae' = [ae EXCEPT !.pc = "validate",
                               !.checkpoint_id = Some(cp.id),
                               !.held = ae.held \ { "history" }]
    /\ UNCHANGED << editor_vars, cache_vars, result, emitted, ai, threads >>

\* AeValidate without the existence check
AeValidate_NoExistenceCheck ==
    /\ ae.pc = "validate"
    /\ LET occurrences == MatchesCount(ae.current_code, ae.old_string)
       IN  IF occurrences > 1
           THEN AeReturn(ApplyEditResult(FALSE,
                                         ErrMsg("NotUnique", occurrences),
                                         << >>, None))
           ELSE /\ ae' = [ae EXCEPT !.pc = "count_errors",
                                    !.new_code = Replace(ae.current_code,
                                                         ae.old_string,
                                                         ae.new_string)]
                /\ UNCHANGED result
    /\ UNCHANGED << editor_vars, history_vars, cache_vars, emitted, ai, threads >>

\* AeValidate without the uniqueness check
AeValidate_NoUniquenessCheck ==
    /\ ae.pc = "validate"
    /\ IF ~Contains(ae.current_code, ae.old_string)
       THEN AeReturn(ApplyEditResult(FALSE, ErrMsg("NotFound", 0),
                                     << >>, None))
       ELSE /\ ae' = [ae EXCEPT !.pc = "count_errors",
                                !.new_code = Replace(ae.current_code,
                                                     ae.old_string,
                                                     ae.new_string)]
            /\ UNCHANGED result
    /\ UNCHANGED << editor_vars, history_vars, cache_vars, emitted, ai, threads >>

\* the existence and uniqueness checks, then current_code.replace(..)
AeValidate ==
    /\ ae.pc = "validate"
    /\ LET occurrences == MatchesCount(ae.current_code, ae.old_string)
       IN  IF ~Contains(ae.current_code, ae.old_string)
           THEN AeReturn(ApplyEditResult(FALSE, ErrMsg("NotFound", 0),
                                         << >>, None))
           ELSE IF occurrences > 1
           THEN AeReturn(ApplyEditResult(FALSE,
                                         ErrMsg("NotUnique", occurrences),
                                         << >>, None))
           ELSE /\ ae' = [ae EXCEPT !.pc = "count_errors",
                                    !.new_code = Replace(ae.current_code,
                                                         ae.old_string,
                                                         ae.new_string)]
                /\ UNCHANGED result
    /\ UNCHANGED << editor_vars, history_vars, cache_vars, emitted, ai, threads >>

\* let old_error_count = state.diagnostics.lock()...count()
AeCountErrors ==
    /\ ae.pc = "count_errors"
    /\ ae' = [ae EXCEPT !.pc = "test_compile",
                        !.old_error_count = ErrorCount(diagnostics)]
    /\ UNCHANGED << editor_vars, history_vars, cache_vars, result, emitted, ai, threads >>

\* test_compile(..).await.  The external process either cannot be run (or
\* its temp file not written): Err; or it runs and its stderr parses to some
\* diagnostic list.  The temp files are removed before test_compile returns.
AeTestCompile ==
    /\ ae.pc = "test_compile"
    /\ \/ ae' = [ae EXCEPT !.pc = "compare", !.compiled = "Err"]
       \/ \E diags \in DiagLists :
             ae' = [ae EXCEPT !.pc = "compare", !.compiled = "Ok",
                              !.test_diagnostics = diags]
    /\ UNCHANGED << editor_vars, history_vars, cache_vars, result, emitted, ai, threads >>

\* AeCompare returning the checkpoint id with the rejection
AeCompare_ReturnsCheckpointId ==
    /\ ae.pc = "compare"
    /\ LET new_error_count == ErrorCount(ae.test_diagnostics)
       IN  IF ae.compiled = "Err"
           THEN AeReturn(ApplyEditResult(FALSE,
                                         ErrMsg("TestCompileFailed", 0),
                                         << >>, None))
           ELSE IF new_error_count > ae.old_error_count
           THEN AeReturn(ApplyEditResult(FALSE, ErrMsg("NewErrors", 0),
                                         ae.test_diagnostics,
                                         ae.checkpoint_id))
           ELSE /\ ae' = [ae EXCEPT !.pc = "write_code"]
                /\ UNCHANGED result
    /\ UNCHANGED << editor_vars, history_vars, cache_vars, emitted, ai, threads >>

\* AeCompare rejecting an equal error count (>= for >)
AeCompare_RejectsEqual ==
    /\ ae.pc = "compare"
    /\ LET new_error_count == ErrorCount(ae.test_diagnostics)
       IN  IF ae.compiled = "Err"
           THEN AeReturn(ApplyEditResult(FALSE,
                                         ErrMsg("TestCompileFailed", 0),
                                         << >>, None))
           ELSE IF new_error_count >= ae.old_error_count
           THEN AeReturn(ApplyEditResult(FALSE, ErrMsg("NewErrors", 0),
                                         ae.test_diagnostics, None))
           ELSE /\ ae' = [ae EXCEPT !.pc = "write_code"]
                /\ UNCHANGED result
    /\ UNCHANGED << editor_vars, history_vars, cache_vars, emitted, ai, threads >>

\* AeCompare taking a failed test_compile for one with no diagnostics
AeCompare_IgnoresFailure ==
    /\ ae.pc = "compare"
    /\ LET new_error_count == ErrorCount(ae.test_diagnostics)
       IN  IF new_error_count > ae.old_error_count
           THEN AeReturn(ApplyEditResult(FALSE, ErrMsg("NewErrors", 0),
                                         ae.test_diagnostics, None))
           ELSE /\ ae' = [ae EXCEPT !.pc = "write_code"]
                /\ UNCHANGED result
    /\ UNCHANGED << editor_vars, history_vars, cache_vars, emitted, ai, threads >>

\* the match on the result of test_compile and the comparison of the counts
AeCompare ==
    /\ ae.pc = "compare"
    /\ LET new_error_count == ErrorCount(ae.test_diagnostics)
       IN  IF ae.compiled = "Err"
           THEN AeReturn(ApplyEditResult(FALSE,
                                         ErrMsg("TestCompileFailed", 0),
                                         << >>, None))
           ELSE IF new_error_count > ae.old_error_count
           THEN AeReturn(ApplyEditResult(FALSE, ErrMsg("NewErrors", 0),
                                         ae.test_diagnostics, None))
           ELSE /\ ae' = [ae EXCEPT !.pc = "write_code"]
                /\ UNCHANGED result
    /\ UNCHANGED << editor_vars, history_vars, cache_vars, emitted, ai, threads >>

\* *state.current_code.lock().unwrap() = new_code.clone()
AeWriteCode ==
    /\ ae.pc = "write_code"
    /\ current_code' = ae.new_code
    /\ ae' = [ae EXCEPT !.pc = "write_diagnostics"]
    /\ UNCHANGED << diagnostics, diag_of, last_preview_path, history_vars,
                    cache_vars, result, emitted, ai, threads >>

\* *state.diagnostics.lock().unwrap() = test_diagnostics.clone()
AeWriteDiagnostics ==
    /\ ae.pc = "write_diagnostics"
    /\ diagnostics' = ae.test_diagnostics
    /\ diag_of' = ae.new_code
    /\ ae' = [ae EXCEPT !.pc = "emit_code_updated"]
    /\ UNCHANGED << current_code, last_preview_path, history_vars,
                    cache_vars, result, emitted, ai, threads >>

\* AeEmitCodeUpdated asking for the render first
AeEmitCodeUpdated_RenderFirst ==
    /\ ae.pc = "emit_code_updated"
    /\ emitted' = emitted \o << [name |-> "render-requested",
                                  payload |-> << >>],
                                [name |-> "code-updated",
                                 payload |-> ae.new_code] >>
    /\ ae' = [ae EXCEPT !.pc = "emit_render_requested"]
    /\ UNCHANGED << editor_vars, history_vars, cache_vars, result, ai, threads >>

\* app.emit("code-updated", &new_code), then the 100 ms sleep
AeEmitCodeUpdated ==
    /\ ae.pc = "emit_code_updated"
    /\ emitted' = Append(emitted, [name |-> "code-updated",
                                   payload |-> ae.new_code])
    /\ ae' = [ae EXCEPT !.pc = "emit_render_requested"]
    /\ UNCHANGED << editor_vars, history_vars, cache_vars, result, ai, threads >>

\* app.emit("render-requested", ()) and the successful return
AeEmitRenderRequested ==
    /\ ae.pc = "emit_render_requested"
    /\ emitted' = Append(emitted, [name |-> "render-requested",
                                   payload |-> << >>])
    /\ AeReturn(ApplyEditResult(TRUE, None, ae.test_diagnostics,
                                ae.checkpoint_id))
    /\ UNCHANGED << editor_vars, history_vars, cache_vars, ai, threads >>

ApplyEditStep ==
    \/ AeReadDiagnostics
    \/ AeLockHistory
    \/ AeCreateCheckpoint
    \/ AeValidate
    \/ AeCountErrors
    \/ AeTestCompile
    \/ AeCompare
    \/ AeWriteCode
    \/ AeWriteDiagnostics
    \/ AeEmitCodeUpdated
    \/ AeEmitRenderRequested
    \/ AeDone

(***************************************************************************)
(* utils/cache.rs: RenderCache                                             *)
(***************************************************************************)
CACHE_VERSION == 2

S_auto == << "a", "u", "t", "o" >>

S_manifold == << "m", "a", "n", "i", "f", "o", "l", "d" >>

S_cgal == << "c", "g", "a", "l" >>

S_3d == << "3", "d" >>

S_2d == << "2", "d" >>

S_mesh == << "m", "e", "s", "h" >>

S_image == << "i", "m", "a", "g", "e" >>

\* RenderCache::generate_key: the bytes fed to the hasher, in order; SHA-256
\* is taken to be injective on them
generate_key(source, backend, view, render_mesh) ==
    source \o backend \o view \o (IF render_mesh THEN S_mesh ELSE S_image)

Cache_get_IgnoresFile(ents, fs, key) ==
    IF key \notin DOMAIN ents THEN None
    ELSE IF ents[key].version # CACHE_VERSION THEN None
    ELSE Some(ents[key])

\* RenderCache::get: None, or Some(entry)
Cache_get(ents, fs, key) ==
    IF key \notin DOMAIN ents THEN None
    ELSE IF ents[key].version # CACHE_VERSION THEN None
    ELSE IF ents[key].output_path \in fs THEN Some(ents[key])
    ELSE None

Cache_set_KeepsExisting(ents, key, output_path, kind, diags, timestamp) ==
    [k \in DOMAIN ents \cup {key} |->
        IF k \in DOMAIN ents THEN ents[k]
        ELSE [version |-> CACHE_VERSION, output_path |-> output_path,
              timestamp |-> timestamp, kind |-> kind, diagnostics |-> diags]]

\* RenderCache::set: the entries after the insert
Cache_set(ents, key, output_path, kind, diags, timestamp) ==
    [k \in DOMAIN ents \cup {key} |->
        IF k = key
        THEN [version |-> CACHE_VERSION, output_path |-> output_path,
              timestamp |-> timestamp, kind |-> kind, diagnostics |-> diags]
        ELSE ents[k]]

\* u64::saturating_sub
saturating_sub(a, b) == IF a >= b THEN a - b ELSE 0

\* RenderCache::evict_old: the entries that are retained
Cache_evict_old(ents, t, max_age_secs) ==
    LET retained == {k \in DOMAIN ents :
                       saturating_sub(t, ents[k].timestamp) < max_age_secs}
    IN  [k \in retained |-> ents[k]]

\* the calls of the methods of RenderCache, each with the value it returns
\* (set: its arguments, and whether HashMap::insert replaced an entry)
RenderCache_get(key) ==
    /\ result' = [op |-> "cache_get", key |-> key,
                  value |-> Cache_get(entries, files, key)]
    /\ emitted' = << >>
    /\ UNCHANGED << editor_vars, history_vars, cache_vars, ae, ai, threads >>

RenderCache_set(key, output_path, kind, diags) ==
    /\ entries' = Cache_set(entries, key, output_path, kind, diags, now)
    /\ result' = [op |-> "cache_set", key |-> key,
                  output_path |-> output_path, kind |-> kind,
                  diagnostics |-> diags,
                  replaced |-> key \in DOMAIN entries]
    /\ emitted' = << >>
    /\ UNCHANGED << editor_vars, history_vars, files, now, ae, ai, threads >>

RenderCache_evict_old(max_age_secs) ==
    /\ entries' = Cache_evict_old(entries, now, max_age_secs)
    /\ result' = [op |-> "cache_evict_old", max_age_secs |-> max_age_secs]
    /\ emitted' = << >>
    /\ UNCHANGED << editor_vars, history_vars, files, now, ae, ai, threads >>

(***************************************************************************)
(* cmd/render.rs: render_preview                                           *)
(***************************************************************************)
UnwrapOr(opt, default) == IF opt = None THEN default ELSE opt[1]

view_str(view) == IF view = "ThreeD" THEN S_3d ELSE S_2d

backend_str(backend) ==
    IF backend = "Manifold" THEN S_manifold
    ELSE IF backend = "Cgal" THEN S_cgal
    ELSE S_auto

\* app_dir.join(format!("render_{}.<ext>", &cache_key[..16])); the 16 hex
\* digits are taken to identify the key
OutPath(cache_key, ext) == << "render", cache_key, ext >>

\* (out_path, kind) of a request
OutputOf(cache_key, view, render_mesh) ==
    IF render_mesh /\ view = "ThreeD"
    THEN [path |-> OutPath(cache_key, "stl"), kind |-> "Mesh"]
    ELSE IF view = "TwoD"
    THEN [path |-> OutPath(cache_key, "svg"), kind |-> "Svg"]
    ELSE [path |-> OutPath(cache_key, "png"), kind |-> "Png"]

\* kind_str when storing, and the match on cached_entry.kind when loading
KindStr(kind) ==
    IF kind = "Mesh" THEN "mesh" ELSE IF kind = "Svg" THEN "svg" ELSE "png"

KindOfStr(str) ==
    IF str = "mesh" THEN "Mesh" ELSE IF str = "svg" THEN "Svg" ELSE "Png"

RenderRequest(source, view, render_mesh, backend, size) ==
    [source |-> source, view |-> view, render_mesh |-> render_mesh,
     backend |-> backend, size |-> size]

\* the requests the frontend sends
RenderRequests ==
    { RenderRequest(T_aaa, None, None, None, None) }

\* cache: the line println! writes, "HIT" or "MISS" ("" before the lookup)
\* value: the response of Ok, or the kind of the error message of Err
RenderReturn(cache, ok, value) ==
    result' = [op |-> "render_preview", cache |-> cache, ok |-> ok,
               value |-> IF ok THEN value ELSE [error |-> value]]

\* render_preview that looks for the output file only when an Error was
\* parsed
render_preview_NoOutputCheck(request, outcome, stderr_diags, wrote_output) ==
    LET view == UnwrapOr(request.view, "ThreeD")
        render_mesh == UnwrapOr(request.render_mesh, FALSE)
        backend == UnwrapOr(request.backend, "Auto")
        cache_key == generate_key(request.source, backend_str(backend),
                                  view_str(view), render_mesh)
        cached == Cache_get(entries, files, cache_key)
        out == OutputOf(cache_key, view, render_mesh)
        files_after == IF wrote_output THEN files \cup {out.path} ELSE files
        has_errors == \E i \in 1..Len(stderr_diags) :
                         stderr_diags[i].severity = "Error"
    IN  /\ emitted' = << >>
        /\ UNCHANGED << history_vars, now, ae, ai, threads >>
        /\ IF outcome = "io_error"
           THEN /\ RenderReturn("", FALSE, "io_error")
                /\ UNCHANGED << editor_vars, entries, files >>
           ELSE IF cached # None
           THEN /\ RenderReturn("HIT", TRUE,
                                [kind |-> KindOfStr(cached[1].kind),
                                 path |-> cached[1].output_path,
                                 diagnostics |-> cached[1].diagnostics])
                /\ UNCHANGED << editor_vars, entries, files >>
           ELSE IF outcome = "exec_error"
           THEN /\ RenderReturn("MISS", FALSE, "exec_error")
                /\ UNCHANGED << editor_vars, entries, files >>
           ELSE /\ files' = files_after
                /\ IF out.path \notin files_after /\ has_errors
                   THEN /\ diagnostics' = stderr_diags
                        /\ diag_of' = request.source
                        /\ RenderReturn("MISS", FALSE, "errors")
                        /\ UNCHANGED << current_code, last_preview_path,
                                        entries >>
                   ELSE /\ entries' = Cache_set(entries, cache_key, out.path,
                                                KindStr(out.kind),
                                                stderr_diags, now)
                        /\ current_code' = request.source
                        /\ diagnostics' = stderr_diags
                        /\ diag_of' = request.source
                        /\ last_preview_path' = out.path
                        /\ RenderReturn("MISS", TRUE,
                                        [kind |-> out.kind,
                                         path |-> out.path,
                                         diagnostics |-> stderr_diags])

\* request: the command's argument.  outcome: what the environment does:
\* "io_error" (the cache directory cannot be made), "exec_error" (the temp
\* file cannot be written or the process not started), or "ran" with the
\* parsed stderr and whether the process wrote its output file.
render_preview(request, outcome, stderr_diags, wrote_output) ==
    LET view == UnwrapOr(request.view, "ThreeD")
        render_mesh == UnwrapOr(request.render_mesh, FALSE)
        backend == UnwrapOr(request.backend, "Auto")
        cache_key == generate_key(request.source, backend_str(backend),
                                  view_str(view), render_mesh)
        cached == Cache_get(entries, files, cache_key)
        out == OutputOf(cache_key, view, render_mesh)
        files_after == IF wrote_output THEN files \cup {out.path} ELSE files
        has_errors == \E i \in 1..Len(stderr_diags) :
                         stderr_diags[i].severity = "Error"
    IN  /\ emitted' = << >>
        /\ UNCHANGED << history_vars, now, ae, ai, threads >>
        /\ IF outcome = "io_error"
           THEN /\ RenderReturn("", FALSE, "io_error")
                /\ UNCHANGED << editor_vars, entries, files >>
           ELSE IF cached # None
           THEN /\ RenderReturn("HIT", TRUE,
                                [kind |-> KindOfStr(cached[1].kind),
                                 path |-> cached[1].output_path,
                                 diagnostics |-> cached[1].diagnostics])
                /\ UNCHANGED << editor_vars, entries, files >>
           ELSE IF outcome = "exec_error"
           THEN /\ RenderReturn("MISS", FALSE, "exec_error")
                /\ UNCHANGED << editor_vars, entries, files >>
           ELSE /\ files' = files_after
                /\ IF out.path \notin files_after
                   THEN IF has_errors
                        THEN /\ diagnostics' = stderr_diags
                             /\ diag_of' = request.source
                             /\ RenderReturn("MISS", FALSE, "errors")
                             /\ UNCHANGED << current_code, last_preview_path,
                                             entries >>
                        ELSE /\ RenderReturn("MISS", FALSE, "no_output")
                             /\ UNCHANGED << editor_vars, entries >>
                   ELSE /\ entries' = Cache_set(entries, cache_key, out.path,
                                                KindStr(out.kind),
                                                stderr_diags, now)
                        /\ current_code' = request.source
                        /\ diagnostics' = stderr_diags
                        /\ diag_of' = request.source
                        /\ last_preview_path' = out.path
                        /\ RenderReturn("MISS", TRUE,
                                        [kind |-> out.kind,
                                         path |-> out.path,
                                         diagnostics |-> stderr_diags])

\* the environment's choices for one render_preview call
RenderPreview ==
    \E request \in RenderRequests :
       \/ render_preview(request, "io_error", << >>, FALSE)
       \/ render_preview(request, "exec_error", << >>, FALSE)
       \/ \E d \in DiagLists, w \in BOOLEAN :
             render_preview(request, "ran", d, w)

(***************************************************************************)
(* Specification: the commands run one at a time, each to its end.         *)
(***************************************************************************)
CheckpointIds == 1..MaxIds

Command ==
    \/ \E code \in Codes : update_editor_state(code)
    \/ \E e \in Edits : apply_edit(e[1], e[2])
    \/ \E code \in Codes :
          next_id <= MaxIds /\ create_checkpoint(code, "User edit", "User")
    \/ undo
    \/ redo
    \/ \E id \in CheckpointIds : restore_to_checkpoint(id)
    \/ RenderPreview

Next ==
    \/ ApplyEditStep
    \/ (ae.pc = "idle" /\ Command)

Spec == Init /\ [][Next]_vars

(***************************************************************************)
(* Specification of validate_edit alone, over texts and edits around the   *)
(* size ceiling.                                                           *)
(***************************************************************************)
T_aaaa == << "a", "a", "a", "a" >>

T_abab == << "a", "b", "a", "b" >>

\* n newlines and then an "a": n + 1 lines
LinesThenA(n) == Newlines(n) \o << "a" >>

VCodes ==
    { << >>, << "a" >>, T_aaa, T_aaaa, T_ab, T_abab, << "a", "\n", "b" >>,
      << "b", "\n", "a", "\n", "b" >>,
      LinesThenA(MaxLinesChanged - 1), LinesThenA(MaxLinesChanged) }

VOldStrings ==
    { << >>, << "a" >>, << "a", "a" >>, << "a", "b" >>, << "c" >>,
      << "a", "\n", "b" >>, << "\n", "a", "\n" >>,
      LinesThenA(MaxLinesChanged - 2), LinesThenA(MaxLinesChanged - 1),
      LinesThenA(MaxLinesChanged) }

VNewStrings ==
    { << >>, << "b" >>, << "b", "\n" >>, << "\n", "\n" >>, Newlines(3),
      Newlines(MaxLinesChanged - 2), Newlines(MaxLinesChanged - 1),
      Newlines(MaxLinesChanged), Newlines(MaxLinesChanged + 1),
      Newlines(MaxLinesChanged + 2), LinesThenA(MaxLinesChanged - 1) }

NextV ==
    \/ \E code \in VCodes : update_editor_state(code)
    \/ \E o \in VOldStrings, n \in VNewStrings : validate_edit(o, n)

SpecV == Init /\ [][NextV]_vars

(***************************************************************************)
(* Specification of the edit commands: the frontend sends the code, the    *)
(* agent validates and applies edits.                                      *)
(***************************************************************************)
\* the edits of the agent, and one whose old_string overlaps itself in the
\* codes the frontend sends
EditsE == Edits \cup { << << "a", "a" >>, << "b" >> >> }

CommandE ==
    \/ \E code \in Codes \cup { T_aaaa } : update_editor_state(code)
    \/ \E e \in EditsE : validate_edit(e[1], e[2])
    \/ \E e \in EditsE : apply_edit(e[1], e[2])

NextE ==
    \/ ApplyEditStep
    \/ (ae.pc = "idle" /\ CommandE)

SpecE == Init /\ [][NextE]_vars

(***************************************************************************)
(* Specification of overlapping commands: while apply_edit is between two  *)
(* of its steps, the other commands run (the history commands only while   *)
(* it does not hold the history lock).  Each of them runs to its end in    *)
(* one step; a second apply_edit starts only when the first has returned.  *)
(***************************************************************************)
CommandC ==
    \/ \E code \in Codes : update_editor_state(code)
    \/ \E e \in Edits : apply_edit(e[1], e[2])
    \/ undo
    \/ redo
    \/ \E id \in CheckpointIds : restore_to_checkpoint(id)

NextC ==
    \/ ApplyEditStep
    \/ CommandC

SpecC == Init /\ [][NextC]_vars

(***************************************************************************)
(* Specification of the history commands: the frontend makes checkpoints   *)
(* of the codes it sends and moves through them.                           *)
(***************************************************************************)
\* number of checkpoint ids handed out in this specification
MaxHistoryIds == 4

\* the ids asked for: those handed out and one that never is
HistoryIds == 1..(MaxHistoryIds + 1)

HistoryCodes == { T_aaa, T_ab }

CommandH ==
    \/ \E code \in HistoryCodes : update_editor_state(code)
    \/ \E code \in HistoryCodes :
          /\ next_id <= MaxHistoryIds
          /\ create_checkpoint(code, "User edit", "User")
    \/ undo
    \/ redo
    \/ \E id \in HistoryIds : restore_to_checkpoint(id)

NextH == CommandH

SpecH == Init /\ [][NextH]_vars

(***************************************************************************)
(* Specification of the history commands with renders between them, which  *)
(* supply the diagnostics the checkpoints hold.                            *)
(***************************************************************************)
CommandR ==
    \/ \E code \in Codes : update_editor_state(code)
    \/ \E code \in Codes :
          next_id <= MaxIds /\ create_checkpoint(code, "User edit", "User")
    \/ undo
    \/ redo
    \/ \E id \in CheckpointIds : restore_to_checkpoint(id)
    \/ RenderPreview

NextR == CommandR

SpecR == Init /\ [][NextR]_vars

(***************************************************************************)
(* Specification of a long session: the frontend makes checkpoints until   *)
(* the history is full and beyond; undo and redo are explored where the    *)
(* history is within one checkpoint of its capacity (shorter histories are *)
(* those of SpecH).                                                        *)
(***************************************************************************)
\* number of checkpoint ids handed out in this specification
MaxCapacityIds == 52

NearCapacity == Len(checkpoints) >= MAX_CHECKPOINTS - 1

CommandCapacity ==
    \/ \E code \in Codes :
          /\ next_id <= MaxCapacityIds
          /\ create_checkpoint(code, "User edit", "User")
    \/ NearCapacity /\ undo
    \/ NearCapacity /\ redo

NextCapacity == CommandCapacity

SpecCapacity == Init /\ [][NextCapacity]_vars

(***************************************************************************)
(* Specification of the diffs of a long session: checkpoints are made      *)
(* until the history is full and beyond, undo and a new checkpoint         *)
(* truncate it, and diffs are asked for between the oldest id, the ids     *)
(* around the capacity and an id that is never handed out.                 *)
(***************************************************************************)
\* the (from_id, to_id) asked for
DiffIds ==
    { << 1, 1 >>, << 1, MAX_CHECKPOINTS + 2 >>,
      << MAX_CHECKPOINTS, MAX_CHECKPOINTS + 2 >>,
      << MAX_CHECKPOINTS + 2, MAX_CHECKPOINTS >>,
      << MAX_CHECKPOINTS, MaxCapacityIds + 1 >>,
      << MaxCapacityIds + 1, 1 >> }

CommandD ==
    \/ \E code \in Codes :
          /\ next_id <= MaxCapacityIds
          /\ create_checkpoint(code, "User edit", "User")
    \/ NearCapacity /\ undo
    \/ NearCapacity /\ redo
    \/ \E ids \in DiffIds :
          NearCapacity /\ get_checkpoint_diff(ids[1], ids[2])

NextD == CommandD

SpecD == Init /\ [][NextD]_vars

(***************************************************************************)
(* Specification of the whole history interface: create_checkpoint, undo,  *)
(* redo, restore_to, clear, can_undo and can_redo, on histories of at most *)
(* two checkpoints and on histories within one checkpoint of the capacity. *)
(***************************************************************************)
ShortOrNearCapacity == Len(checkpoints) <= 2 \/ NearCapacity

\* the ids restore_to is asked for
RestoreIds == { 1, 2, MAX_CHECKPOINTS, MAX_CHECKPOINTS + 2 }

CommandI ==
    \/ \E code \in Codes :
          /\ next_id <= MaxCapacityIds
          /\ create_checkpoint(code, "User edit", "User")
    \/ ShortOrNearCapacity /\ undo
    \/ ShortOrNearCapacity /\ redo
    \/ \E id \in RestoreIds :
          ShortOrNearCapacity /\ restore_to_checkpoint(id)
    \/ ShortOrNearCapacity /\ clear
    \/ ShortOrNearCapacity /\ can_undo
    \/ ShortOrNearCapacity /\ can_redo

NextI == CommandI

SpecI == Init /\ [][NextI]_vars

(***************************************************************************)
(* The locks of the commands.  Every command is the sequence of its lock   *)
(* and unlock operations in program order, one sequence for each path      *)
(* through the command that takes different locks; what is read and        *)
(* written under the locks is in the command actions above.  A guard that  *)
(* is a temporary is dropped at the end of its statement.                  *)
(***************************************************************************)
Lock(l) == << "lock", l >>

Unlock(l) == << "unlock", l >>

\* state.<field>.lock().unwrap() as a temporary of one statement
Temp(l) == << Lock(l), Unlock(l) >>

\* EditorState.current_code, .diagnostics, .last_preview_path
DocumentLocks == { "current_code", "diagnostics", "last_preview_path" }

\* the checkpoint block of apply_edit with the diagnostics guard bound to a
\* variable of the block
ApplyEditCheckpointLocks_GuardKept ==
    << Lock("diagnostics"), Lock("history"), Unlock("history"),
       Unlock("diagnostics") >>

\* apply_edit: the diagnostics are cloned, then the history is locked until
\* the end of the block
ApplyEditCheckpointLocks ==
    Temp("diagnostics") \o << Lock("history"), Unlock("history") >>

\* undo, and likewise redo and restore_to_checkpoint, when a checkpoint is
\* returned: the history guard lives to the end of the command
RestoreLocks ==
    << Lock("history") >> \o Temp("current_code") \o Temp("diagnostics")
      \o << Unlock("history") >>

LockCommands ==
    { "update_editor_state", "get_diagnostics", "create_checkpoint",
      "undo", "undo_fails", "apply_edit", "apply_edit_rejected",
      "apply_edit_rolled_back", "render_preview", "render_preview_hit",
      "render_preview_errors" }

LockSteps(cmd) ==
    CASE cmd = "update_editor_state" -> Temp("current_code")
      [] cmd = "get_diagnostics" -> Temp("diagnostics")
      [] cmd = "create_checkpoint" ->
            Temp("diagnostics") \o << Lock("history"), Unlock("history") >>
      [] cmd = "undo" -> RestoreLocks
      [] cmd = "undo_fails" -> << Lock("history"), Unlock("history") >>
      [] cmd = "apply_edit_rejected" ->
            Temp("current_code") \o ApplyEditCheckpointLocks
      [] cmd = "apply_edit_rolled_back" ->
            Temp("current_code") \o ApplyEditCheckpointLocks
              \o Temp("diagnostics")
      [] cmd = "apply_edit" ->
            Temp("current_code") \o ApplyEditCheckpointLocks
              \o Temp("diagnostics") \o Temp("current_code")
              \o Temp("diagnostics")
      [] cmd = "render_preview_hit" -> Temp("entries")
      [] cmd = "render_preview_errors" ->
            Temp("entries") \o Temp("diagnostics")
      [] cmd = "render_preview" ->
            Temp("entries") \o Temp("entries") \o Temp("current_code")
              \o Temp("diagnostics") \o Temp("last_preview_path")
      [] OTHER -> << >>

\* the locks thread t holds: locked and not yet unlocked
Held(t) ==
    LET steps == LockSteps(threads[t].cmd)
        done == 1..(threads[t].pc - 1)
    IN  {l \in DocumentLocks \cup { "history", "entries" } :
           Cardinality({i \in done : steps[i] = Lock(l)})
             > Cardinality({i \in done : steps[i] = Unlock(l)})}

\* the operation thread t is at: << >> when it is idle or at its end
NextLockStep(t) ==
    IF threads[t].cmd # "idle"
       /\ threads[t].pc <= Len(LockSteps(threads[t].cmd))
    THEN LockSteps(threads[t].cmd)[threads[t].pc]
    ELSE << >>

\* the lock thread t is asking for, or "" when it asks for none
Requested(t) ==
    IF NextLockStep(t) # << >> /\ NextLockStep(t)[1] = "lock"
    THEN NextLockStep(t)[2] ELSE ""

Owners(l) == {u \in Threads : l \in Held(u)}

LockUnchanged ==
    UNCHANGED << editor_vars, history_vars, cache_vars, ae, result, emitted,
                 ai >>

\* the command is invoked on thread t
ThreadStart(t, cmd) ==
    /\ threads[t].cmd = "idle"
    /\ threads' = [threads EXCEPT ![t] = [cmd |-> cmd, pc |-> 1]]
    /\ LockUnchanged

\* Mutex::lock returns: nobody holds the lock
ThreadLock(t) ==
    /\ Requested(t) # ""
    /\ Owners(Requested(t)) = {}
    /\ threads' = [threads EXCEPT ![t].pc = @ + 1]
    /\ LockUnchanged

\* the guard is dropped
ThreadUnlock(t) ==
    /\ NextLockStep(t) # << >>
    /\ NextLockStep(t)[1] = "unlock"
    /\ threads' = [threads EXCEPT ![t].pc = @ + 1]
    /\ LockUnchanged

\* the command returns
ThreadReturn(t) ==
    /\ threads[t].cmd # "idle"
    /\ NextLockStep(t) = << >>
    /\ threads' = [threads EXCEPT ![t] = ThreadIdle]
    /\ LockUnchanged

NextL ==
    \E t \in Threads :
       \/ \E cmd \in LockCommands : ThreadStart(t, cmd)
       \/ ThreadLock(t)
       \/ ThreadUnlock(t)
       \/ ThreadReturn(t)

SpecL == Init /\ [][NextL]_vars

(***************************************************************************)
(* Specification of a reader beside apply_edit: while apply_edit runs,     *)
(* the agent's tools get_current_code and get_diagnostics read the         *)
(* Document, each under the lock of the field it reads.                    *)
(***************************************************************************)
\* state.current_code.lock().unwrap().clone()
get_current_code ==
    /\ result' = [op |-> "get_current_code", value |-> current_code]
    /\ UNCHANGED << editor_vars, history_vars, cache_vars, ae, emitted, ai, threads >>

\* state.diagnostics.lock().unwrap().clone()
get_diagnostics ==
    /\ result' = [op |-> "get_diagnostics", value |-> diagnostics]
    /\ UNCHANGED << editor_vars, history_vars, cache_vars, ae, emitted, ai, threads >>

\* render_preview runs before apply_edit is called and leaves diagnostics
\* in the Document
CommandT ==
    \/ \E e \in Edits : apply_edit(e[1], e[2])
    \/ get_current_code
    \/ get_diagnostics
    \/ (ae.pc = "idle" /\ RenderPreview)

NextT ==
    \/ ApplyEditStep
    \/ CommandT

SpecT == Init /\ [][NextT]_vars

(***************************************************************************)
(* ai_agent.rs: send_ai_query, run_ai_query / run_openai_query and         *)
(* cancel_ai_stream.  The task is followed through its awaits: the loop    *)
(* top, the response of the API, each item of the byte stream.  What a     *)
(* tool does to the editor is left out: executed tools are counted.        *)
(***************************************************************************)
\* requests one session sends
MaxRequests == 2

\* sessions whose token is replaced while they run
MaxEarlier == 1

\* chunks one response streams
MaxChunks == 2

Providers == { "anthropic", "openai" }

\* the task has not returned
AiRunning == ai.pc \in { "turn", "send", "stream", "tools" }

\* return from run_ai_query / run_openai_query: Ok(()) after a cancellation
\* ("cancelled") or after the done event ("done"), Err(e), for which the
\* spawned wrapper emits the error event ("error")
AiReturn(outcome) == [ai EXCEPT !.pc = "returned", !.outcome = outcome]

\* a new token replaces the one in AiAgentState and the task is spawned;
\* the task of the query before, if it has not returned, runs on with its
\* own token, and is not followed further
send_ai_query(provider) ==
    /\ AiRunning => Len(ai.earlier) < MaxEarlier
    /\ ai' = [AiIdle EXCEPT !.pc = "turn", !.provider = provider,
                            !.slot = TRUE,
                            !.earlier =
                               IF AiRunning
                               THEN Append(ai.earlier,
                                           [cancelled |-> ai.cancelled])
                               ELSE ai.earlier]
    /\ result' = [op |-> "send_ai_query"]
    /\ emitted' = << >>
    /\ UNCHANGED << editor_vars, history_vars, cache_vars, ae, threads >>

\* state.cancellation_token.lock().await.take(), and token.cancel()
cancel_ai_stream ==
    /\ ai' = IF ai.slot
             THEN [ai EXCEPT !.slot = FALSE, !.cancelled = TRUE]
             ELSE ai
    /\ result' = [op |-> "cancel_ai_stream"]
    /\ emitted' = << >>
    /\ UNCHANGED << editor_vars, history_vars, cache_vars, ae, threads >>

\* the top of the loop: the check, then the request is built and sent
RunQueryTurn ==
    /\ ai.pc = "turn"
    /\ IF ai.cancelled
       THEN ai' = AiReturn("cancelled")
       ELSE /\ ai.requests < MaxRequests
            /\ ai' = [ai EXCEPT !.pc = "send", !.requests = ai.requests + 1,
                                !.chunks = 0, !.pending = 0,
                                !.executed = << >>]
    /\ UNCHANGED << editor_vars, history_vars, cache_vars, ae, threads, result,
                    emitted >>

\* .send().await returns: an error, a status that is not a success, or the
\* response whose body is streamed
RunQueryResponse(response) ==
    /\ ai.pc = "send"
    /\ ai' = IF response = "ok" THEN [ai EXCEPT !.pc = "stream"]
             ELSE AiReturn("error")
    /\ UNCHANGED << editor_vars, history_vars, cache_vars, ae, threads, result,
                    emitted >>

\* RunQueryChunk without the check
RunQueryChunk_NoCheck(chunk) ==
    /\ ai.pc = "stream"
    /\ ai.chunks < MaxChunks
    /\ ai' = IF chunk = "error" THEN AiReturn("error")
             ELSE IF chunk = "text"
             THEN [ai EXCEPT !.chunks = ai.chunks + 1]
             ELSE IF ai.provider = "anthropic"
             THEN [ai EXCEPT !.chunks = ai.chunks + 1,
                             !.tools = ai.tools + 1,
                             !.pending = ai.pending + 1]
             ELSE [ai EXCEPT !.chunks = ai.chunks + 1,
                             !.pending = ai.pending + 1]
    /\ UNCHANGED << editor_vars, history_vars, cache_vars, ae, threads, result,
                    emitted >>

\* stream.next().await returns Some(chunk_result): the check, then the
\* error of the chunk, then its lines.  A chunk holds text, or the lines
\* that complete one tool call: run_ai_query executes the tool at once
\* and keeps its result, run_openai_query keeps the call
RunQueryChunk(chunk) ==
    /\ ai.pc = "stream"
    /\ ai.chunks < MaxChunks
    /\ ai' = IF ai.cancelled THEN AiReturn("cancelled")
             ELSE IF chunk = "error" THEN AiReturn("error")
             ELSE IF chunk = "text"
             THEN [ai EXCEPT !.chunks = ai.chunks + 1]
             ELSE IF ai.provider = "anthropic"
             THEN [ai EXCEPT !.chunks = ai.chunks + 1,
                             !.tools = ai.tools + 1,
                             !.pending = ai.pending + 1]
             ELSE [ai EXCEPT !.chunks = ai.chunks + 1,
                             !.pending = ai.pending + 1]
    /\ UNCHANGED << editor_vars, history_vars, cache_vars, ae, threads, result,
                    emitted >>

\* stream.next().await returns None: with tool results the loop of
\* run_ai_query goes on, with tool calls run_openai_query goes on to execute
\* them, without either the done event is emitted
RunQueryStreamEnd ==
    /\ ai.pc = "stream"
    /\ ai' = IF ai.pending = 0 THEN AiReturn("done")
             ELSE IF ai.provider = "anthropic"
             THEN [ai EXCEPT !.pc = "turn"]
             ELSE [ai EXCEPT !.pc = "tools"]
    /\ UNCHANGED << editor_vars, history_vars, cache_vars, ae, threads, result,
                    emitted >>

\* run_openai_query: execute_tool(...).await for the next entry of
\* tool_calls.iter(); the HashMap yields its keys, the indices 0 to
\* pending - 1, in an order of its own, the same for the whole loop
RunQueryTool(index) ==
    /\ ai.pc = "tools"
    /\ index \in 0..(ai.pending - 1)
    /\ \A i \in 1..Len(ai.executed) : ai.executed[i] # index
    /\ ai' = [ai EXCEPT !.tools = ai.tools + 1,
                        !.executed = Append(ai.executed, index),
                        !.pc = IF Len(ai.executed) + 1 = ai.pending
                               THEN "turn" ELSE "tools"]
    /\ UNCHANGED << editor_vars, history_vars, cache_vars, ae, threads, result,
                    emitted >>

NextQ ==
    \/ \E provider \in Providers : send_ai_query(provider)
    \/ cancel_ai_stream
    \/ RunQueryTurn
    \/ \E response \in { "send_error", "api_error", "ok" } :
          RunQueryResponse(response)
    \/ \E chunk \in { "text", "tool", "error" } : RunQueryChunk(chunk)
    \/ RunQueryStreamEnd
    \/ \E index \in 0..(MaxChunks - 1) : RunQueryTool(index)

SpecQ == Init /\ [][NextQ]_vars

(***************************************************************************)
(* Specification of the cache: set, get and evict_old are called in any    *)
(* order while the clock advances and artifact files are written and       *)
(* deleted outside the program.                                            *)
(***************************************************************************)
\* seconds the clock advances
MaxNow == 1

CacheKeys == { "k1", "k2" }

CachePaths == { "p1", "p2" }

CacheKinds == { "png", "mesh" }

CacheDiagLists == { << >>, << E1 >> }

MaxAges == 0..(MaxNow + 1)

\* SystemTime::now() a second later
Tick ==
    /\ now < MaxNow
    /\ now' = now + 1
    /\ UNCHANGED << editor_vars, history_vars, entries, files, ae, result,
                    emitted, ai, threads >>

\* an artifact file is written (by the OpenSCAD process)
WriteFile(path) ==
    /\ path \notin files
    /\ files' = files \cup { path }
    /\ UNCHANGED << editor_vars, history_vars, entries, now, ae, result,
                    emitted, ai, threads >>

\* an artifact file is deleted (the cache directory is cleaned)
DeleteFile(path) ==
    /\ path \in files
    /\ files' = files \ { path }
    /\ UNCHANGED << editor_vars, history_vars, entries, now, ae, result,
                    emitted, ai, threads >>

NextK ==
    \/ \E key \in CacheKeys : RenderCache_get(key)
    \/ \E key \in CacheKeys, path \in CachePaths, kind \in CacheKinds,
          diags \in CacheDiagLists :
          RenderCache_set(key, path, kind, diags)
    \/ \E max_age_secs \in MaxAges : RenderCache_evict_old(max_age_secs)
    \/ Tick
    \/ \E path \in CachePaths : WriteFile(path)
    \/ \E path \in CachePaths : DeleteFile(path)

SpecK == Init /\ [][NextK]_vars

(***************************************************************************)
(* Specification of the builds: render_preview for two views and two image *)
(* sizes of one source, with every outcome of the build, while the cache   *)
(* directory is cleaned, cache entries are evicted and the editor text     *)
(* changes.                                                                *)
(***************************************************************************)
BuildRequests ==
    { RenderRequest(T_aaa, None, None, None, None),
      RenderRequest(T_aaa, << "TwoD" >>, None, None, None),
      RenderRequest(T_aaa, None, None, None, << [w |-> 400, h |-> 300] >>) }

\* generate_key of the request, with the defaults of render_preview
BuildKey(request) ==
    generate_key(request.source,
                 backend_str(UnwrapOr(request.backend, "Auto")),
                 view_str(UnwrapOr(request.view, "ThreeD")),
                 UnwrapOr(request.render_mesh, FALSE))

\* out_path and kind of the request
BuildOutput(request) ==
    OutputOf(BuildKey(request), UnwrapOr(request.view, "ThreeD"),
             UnwrapOr(request.render_mesh, FALSE))

\* what the build writes to stderr: nothing, or one error
BuildDiagLists == { << >>, << E1 >> }

NextB ==
    \/ \E request \in BuildRequests :
          \/ render_preview(request, "io_error", << >>, FALSE)
          \/ render_preview(request, "exec_error", << >>, FALSE)
          \/ \E d \in BuildDiagLists, w \in BOOLEAN :
                render_preview(request, "ran", d, w)
    \/ \E request \in BuildRequests : DeleteFile(BuildOutput(request).path)
    \/ RenderCache_evict_old(0)
    \/ Tick
    \/ update_editor_state(T_ab)

SpecB == Init /\ [][NextB]_vars

(***************************************************************************)
(* Specification of the key derivation: generate_key is applied to two     *)
(* tuples of arguments.  source, backend and view are &str: render_preview *)
(* passes "manifold", "cgal" or "auto" and "3d" or "2d", other callers of  *)
(* the public function may pass any string.                                *)
(***************************************************************************)
KeySources == { << "a" >>, << "a", "b" >> }

KeyBackends == { S_auto, S_cgal, S_manifold, << "c" >>, << "b", "c" >> }

KeyViews == { S_3d, S_2d }

KeyTuples == KeySources \X KeyBackends \X KeyViews \X BOOLEAN

\* two calls of RenderCache::generate_key, with the keys they return
GenerateKeys(t, u) ==
    /\ result' = [op |-> "generate_key", first |-> t, second |-> u,
                  key1 |-> generate_key(t[1], t[2], t[3], t[4]),
                  key2 |-> generate_key(u[1], u[2], u[3], u[4])]
    /\ emitted' = << >>
    /\ UNCHANGED << editor_vars, history_vars, cache_vars, ae, ai, threads >>

NextG == \E t \in KeyTuples, u \in KeyTuples : GenerateKeys(t, u)

SpecG == Init /\ [][NextG]_vars

(***************************************************************************)
(* utils/parser.rs: parse_openscad_stderr                                  *)
(***************************************************************************)
UpperCase ==
    << "A", "B", "C", "D", "E", "F", "G", "H", "I", "J", "K", "L", "M",
       "N", "O", "P", "Q", "R", "S", "T", "U", "V", "W", "X", "Y", "Z" >>

LowerCase ==
    << "a", "b", "c", "d", "e", "f", "g", "h", "i", "j", "k", "l", "m",
       "n", "o", "p", "q", "r", "s", "t", "u", "v", "w", "x", "y", "z" >>

Digits ==
    << "0", "1", "2", "3", "4", "5", "6", "7", "8", "9" >>

\* char::is_whitespace, and \s of the regex, on ASCII
is_whitespace(c) == c \in { " ", "\t", "\n", "\r", "\f" }

\* char::is_ascii_digit, the digits str::parse::<i32> reads
is_ascii_digit(c) == \E i \in 1..Len(Digits) : Digits[i] = c

\* decimal digits outside ASCII: ARABIC-INDIC DIGIT THREE, one character
UnicodeDigits == { "U+0663" }

\* \d of the regex, which is Unicode-aware: any decimal digit
is_digit(c) == is_ascii_digit(c) \/ c \in UnicodeDigits

DigitValue(c) == (CHOOSE i \in 1..Len(Digits) : Digits[i] = c) - 1

\* str::to_ascii_lowercase
to_ascii_lowercase(s) ==
    [i \in 1..Len(s) |->
        IF \E k \in 1..Len(UpperCase) : UpperCase[k] = s[i]
        THEN LowerCase[CHOOSE k \in 1..Len(UpperCase) : UpperCase[k] = s[i]]
        ELSE s[i]]

\* str::lines: the pieces that end at a "\n" (or at the end of the string,
\* if the rest is not empty), without the "\n" and without a "\r" before it
RECURSIVE str_lines(_)
str_lines(s) ==
    IF Len(s) = 0 THEN << >>
    ELSE LET nl == {i \in 1..Len(s) : s[i] = "\n"}
         IN  IF nl = {} THEN << s >>
             ELSE LET i == CHOOSE j \in nl : \A k \in nl : j <= k
                      raw == SubSeq(s, 1, i - 1)
                      line == IF Len(raw) > 0 /\ raw[Len(raw)] = "\r"
                              THEN SubSeq(raw, 1, Len(raw) - 1)
                              ELSE raw
                  IN  << line >> \o str_lines(SubSeq(s, i + 1, Len(s)))

\* str::trim
trim(s) ==
    LET inner == {i \in 1..Len(s) : ~is_whitespace(s[i])}
    IN  IF inner = {} THEN << >>
        ELSE SubSeq(s, CHOOSE i \in inner : \A k \in inner : i <= k,
                       CHOOSE i \in inner : \A k \in inner : i >= k)

\* the first position at or after i of s that holds no whitespace
\* (Len(s) + 1 if there is none): where a greedy \s* or \s+ ends
SkipWhitespace(s, i) ==
    CHOOSE j \in i..(Len(s) + 1) :
        /\ \A k \in i..(j - 1) : is_whitespace(s[k])
        /\ j <= Len(s) => ~is_whitespace(s[j])

\* the first position at or after i of s that holds no digit: where a
\* greedy \d+ ends
SkipDigits(s, i) ==
    CHOOSE j \in i..(Len(s) + 1) :
        /\ \A k \in i..(j - 1) : is_digit(s[k])
        /\ j <= Len(s) => ~is_digit(s[j])

S_error == << "e", "r", "r", "o", "r" >>

S_warning == << "w", "a", "r", "n", "i", "n", "g" >>

S_echo == << "e", "c", "h", "o" >>

S_line == << "l", "i", "n", "e" >>

\* ERROR_REGEX.captures(line): None, or group 1 and group 2
ERROR_REGEX_captures(line) ==
    LET matching ==
          {w \in { S_error, S_warning, S_echo } :
             /\ Len(line) >= Len(w) + 1
             /\ to_ascii_lowercase(SubSeq(line, 1, Len(w))) = w
             /\ line[Len(w) + 1] = ":"}
    IN  IF matching = {} THEN None
        ELSE LET w == CHOOSE x \in matching : TRUE
             IN  Some([severity_str |-> SubSeq(line, 1, Len(w)),
                       message |-> SubSeq(line,
                                          SkipWhitespace(line, Len(w) + 2),
                                          Len(line))])

\* LINE_NUMBER_REGEX_captures taking the rightmost match
LINE_NUMBER_REGEX_captures_LastMatch(message) ==
    LET starts ==
          {i \in 1..Len(message) :
             /\ MatchAt(message, S_line, i - 1)
             /\ SkipWhitespace(message, i + 4) > i + 4
             /\ SkipDigits(message, SkipWhitespace(message, i + 4))
                  > SkipWhitespace(message, i + 4)}
    IN  IF starts = {} THEN None
        ELSE LET i == CHOOSE j \in starts : \A k \in starts : j >= k
                 d == SkipWhitespace(message, i + 4)
             IN  Some(SubSeq(message, d, SkipDigits(message, d) - 1))

\* LINE_NUMBER_REGEX.captures(message): None, or group 1 of the leftmost
\* match
LINE_NUMBER_REGEX_captures(message) ==
    LET starts ==
          {i \in 1..Len(message) :
             /\ MatchAt(message, S_line, i - 1)
             /\ SkipWhitespace(message, i + 4) > i + 4
             /\ SkipDigits(message, SkipWhitespace(message, i + 4))
                  > SkipWhitespace(message, i + 4)}
    IN  IF starts = {} THEN None
        ELSE LET i == CHOOSE j \in starts : \A k \in starts : j <= k
                 d == SkipWhitespace(message, i + 4)
             IN  Some(SubSeq(message, d, SkipDigits(message, d) - 1))

\* i32::MAX
I32_MAX == 2147483647

\* str::parse::<i32> of a string of digits: checked multiplication and
\* addition, None on overflow
RECURSIVE parse_i32_from(_, _, _)
parse_i32_from(digits, i, acc) ==
    IF i > Len(digits) THEN Some(acc)
    ELSE IF ~is_ascii_digit(digits[i]) THEN None
    ELSE LET d == DigitValue(digits[i])
         IN  IF acc > (I32_MAX - d) \div 10 THEN None
             ELSE parse_i32_from(digits, i + 1, acc * 10 + d)

parse_i32(digits) == parse_i32_from(digits, 1, 0)

ParseLine_EchoIgnored(untrimmed) ==
    LET line == trim(untrimmed)
        caps == ERROR_REGEX_captures(line)
    IN  IF Len(line) = 0 \/ caps = None THEN << >>
        ELSE LET severity_str == to_ascii_lowercase(caps[1].severity_str)
                 number == LINE_NUMBER_REGEX_captures(caps[1].message)
                 line_number == IF number = None THEN None
                                ELSE parse_i32(number[1])
             IN  IF severity_str = S_error
                 THEN << Diag("Error", line_number, line) >>
                 ELSE IF severity_str = S_warning
                 THEN << Diag("Warning", line_number, line) >>
                 ELSE << >>

\* the body of the loop for one line of stderr: the diagnostics it pushes
ParseLine(untrimmed) ==
    LET line == trim(untrimmed)
        caps == ERROR_REGEX_captures(line)
    IN  IF Len(line) = 0 \/ caps = None THEN << >>
        ELSE LET severity_str == to_ascii_lowercase(caps[1].severity_str)
                 number == LINE_NUMBER_REGEX_captures(caps[1].message)
                 line_number == IF number = None THEN None
                                ELSE parse_i32(number[1])
             IN  IF severity_str = S_error
                 THEN << Diag("Error", line_number, line) >>
                 ELSE IF severity_str = S_warning
                 THEN << Diag("Warning", line_number, line) >>
                 ELSE IF severity_str = S_echo
                 THEN << Diag("Info", line_number, line) >>
                 ELSE << >>

RECURSIVE ParseLines(_)
ParseLines(ls) ==
    IF Len(ls) = 0 THEN << >>
    ELSE ParseLine(Head(ls)) \o ParseLines(Tail(ls))

parse_openscad_stderr(stderr) == ParseLines(str_lines(stderr))

(***************************************************************************)
(* Specification of the parser: parse_openscad_stderr is applied to the    *)
(* output of OpenSCAD, some lines each ended by "\n" except possibly the   *)
(* last.                                                                   *)
(***************************************************************************)
\* lines of output
MaxStderrLines == 2

L_error_line ==
    << "E", "R", "R", "O", "R", ":", " ", "s", "y", "n", "t", "a", "x",
       " ", "e", "r", "r", "o", "r", ",", " ", "l", "i", "n", "e", " ",
       "1", "2" >>

L_warning_line ==
    << "W", "A", "R", "N", "I", "N", "G", ":", " ", "w", ",", " ", "l",
       "i", "n", "e", " ", "5" >>

L_echo ==
    << "e", "c", "h", "o", ":", " ", "h", "i" >>

L_indented ==
    << "\t", " ", "E", "R", "R", "O", "R", ":", " ", "e" >>

L_no_colon ==
    << "E", "R", "R", "O", "R", " ", "e", " ", "l", "i", "n", "e", " ",
       "3" >>

L_note ==
    << "n", "o", "t", "e", ":", " ", "l", "i", "n", "e", " ", "3" >>

L_empty ==
    << >>

L_blank ==
    << " ", " " >>

L_crlf ==
    << "W", "a", "r", "n", "i", "n", "g", ":", "x", "\r" >>

L_overflow ==
    << "E", "R", "R", "O", "R", ":", " ", "l", "i", "n", "e", " ", "2",
       "1", "4", "7", "4", "8", "3", "6", "4", "8" >>

L_first_token ==
    << "E", "R", "R", "O", "R", ":", " ", "l", "i", "n", "e", " ", "x",
       ",", " ", "l", "i", "n", "e", " ", "2", "1", "4", "7", "4", "8",
       "3", "6", "4", "7", " ", "l", "i", "n", "e", " ", "9" >>

L_arabic_digit ==
    << "E", "C", "H", "O", ":", " ", "l", "i", "n", "e", " ", "U+0663",
       ",", " ", "l", "i", "n", "e", " ", "5" >>

L_outline ==
    << "E", "C", "H", "O", ":", " ", "o", "u", "t", "l", "i", "n", "e",
       " ", " ", "0", "7", ",", " ", "L", "i", "n", "e", " ", "3" >>

L_inner ==
    << "x", " ", "E", "R", "R", "O", "R", ":", " ", "e" >>

StderrLines ==
    { L_error_line, L_warning_line, L_echo, L_indented,
      L_no_colon, L_note, L_empty, L_blank,
      L_crlf, L_overflow, L_first_token, L_outline,
      L_inner, L_arabic_digit }

RECURSIVE JoinLines(_)
JoinLines(ls) ==
    IF Len(ls) = 0 THEN << >>
    ELSE IF Len(ls) = 1 THEN ls[1]
    ELSE ls[1] \o << "\n" >> \o JoinLines(Tail(ls))

\* what OpenSCAD writes to stderr
Stderrs ==
    UNION { { JoinLines(ls), JoinLines(ls) \o << "\n" >> } :
              ls \in UNION { [1..n -> StderrLines] : n \in 0..MaxStderrLines } }

\* one call in a behaviour: the function keeps nothing between calls
ParseOpenscadStderr(stderr) ==
    /\ result = NoResult
    /\ result' = [op |-> "parse_openscad_stderr", stderr |-> stderr,
                  value |-> parse_openscad_stderr(stderr)]
    /\ emitted' = << >>
    /\ UNCHANGED << editor_vars, history_vars, cache_vars, ae, ai, threads >>

NextP == \E stderr \in Stderrs : ParseOpenscadStderr(stderr)

SpecP == Init /\ [][NextP]_vars

(***************************************************************************)
(* Properties.                                                             *)
(***************************************************************************)
\* the 1-based positions at which p starts in t, overlapping ones included
OccurrenceStarts(t, p) ==
    {i \in 1..(Len(t) + 1) :
        /\ i + Len(p) - 1 <= Len(t)
        /\ \A k \in 1..Len(p) : t[i + k - 1] = p[k]}

Occurrences(t, p) == Cardinality(OccurrenceStarts(t, p))

\* t with the occurrence of p that starts at position i replaced by n
ReplacedAt(t, p, n, i) ==
    SubSeq(t, 1, i - 1) \o n \o SubSeq(t, i + Len(p), Len(t))

NumErrors(ds) == Len(SelectSeq(ds, LAMBDA d : d.severity = "Error"))

LastCheckpoint == checkpoints[Len(checkpoints)]

\* positions of apply_edit after its checkpoint / after its validation
AfterCheckpoint ==
    { "validate", "count_errors", "test_compile", "compare", "write_code",
      "write_diagnostics", "emit_code_updated", "emit_render_requested",
      "return" }

AfterValidate == AfterCheckpoint \ { "validate" }

\* the Document is as apply_edit found it when it started
DocumentAsSnapshot ==
    /\ current_code = ae.current_code
    /\ diagnostics = ae.diagnostics

\* C1: an apply_edit whose old_string occurs exactly once and whose test
\* compile returned diagnostics ends with the Document holding the candidate
\* text and the verifier's diagnostics if and only if the verifier's Error
\* count is at most the Error count of the Document before the call (equal
\* counts of different errors included); otherwise the Document is as
\* before and the result carries the verifier's diagnostics.
C1_CommitIffNoMoreErrors ==
    (/\ ae.pc = "return"
     /\ ae.compiled = "Ok"
     /\ Occurrences(ae.current_code, ae.old_string) = 1)
    => LET at == CHOOSE i \in OccurrenceStarts(ae.current_code,
                                               ae.old_string) : TRUE
           candidate == ReplacedAt(ae.current_code, ae.old_string,
                                   ae.new_string, at)
       IN  IF NumErrors(ae.test_diagnostics) <= NumErrors(ae.diagnostics)
           THEN /\ ae.value.success
                /\ current_code = candidate
                /\ diagnostics = ae.test_diagnostics
           ELSE /\ ~ae.value.success
                /\ DocumentAsSnapshot
                /\ ae.value.diagnostics = ae.test_diagnostics

\* an edit was committed although it traded one error for another
C1_Witness ==
    /\ ae.pc = "return"
    /\ ae.value.success
    /\ ae.diagnostics = << E1 >>
    /\ ae.test_diagnostics = << W1, E2 >>
    /\ diagnostics = << W1, E2 >>

NotFoundResult ==
    ApplyEditResult(FALSE, ErrMsg("NotFound", 0), << >>, None)

\* C2: an apply_edit whose old_string does not occur in the text goes no
\* further than its validation: it returns the not-found failure and the
\* Document is as before; the returned value does not depend on the state,
\* so a repeated call returns the same.
C2_NotFoundRejected ==
    (/\ ae.pc \in AfterValidate
     /\ Occurrences(ae.current_code, ae.old_string) = 0)
    => /\ ae.pc = "return"
       /\ ae.value = NotFoundResult
       /\ ae.compiled = ""
       /\ DocumentAsSnapshot

\* an absent old_string is refused in a second attempt on the default text
C2_Witness ==
    /\ ae.pc = "return"
    /\ ae.value = NotFoundResult
    /\ ae.old_string = << "a" >>
    /\ current_code = DefaultCode
    /\ Len(checkpoints) = 2
    /\ checkpoints[1].change_type = "Ai"
    /\ checkpoints[1].code = DefaultCode

\* C3: whenever old_string starts at k > 1 positions of the text
\* (overlapping occurrences included), validate_edit and apply_edit fail
\* with the not-unique error reporting k, apply_edit does not run the
\* verifier and the text is unchanged.
C3_NotUniqueRejected ==
    /\ (/\ ae.pc = "idle"
        /\ result.op = "validate_edit"
        /\ Occurrences(current_code, result.old_string) > 1)
       => /\ ~result.value.ok
          /\ result.value.error =
                ErrMsg("NotUnique",
                       Occurrences(current_code, result.old_string))
    /\ (/\ ae.pc \in AfterValidate
        /\ Occurrences(ae.current_code, ae.old_string) > 1)
       => /\ ae.pc = "return"
          /\ ~ae.value.success
          /\ ae.value.error =
                ErrMsg("NotUnique",
                       Occurrences(ae.current_code, ae.old_string))
          /\ ae.compiled = ""
          /\ current_code = ae.current_code

\* C4: for an old_string that occurs exactly once, validate_edit returns
\* lines_changed = max(lines(old_string), lines(new_string)), with ok when
\* that is at most 120 and the too-large failure when it is 121 or more.
C4_SizeCeiling ==
    (/\ ae.pc = "idle"
     /\ result.op = "validate_edit"
     /\ Occurrences(current_code, result.old_string) = 1)
    => LET lines_changed == Max(LinesCount(result.old_string),
                                LinesCount(result.new_string))
       IN  /\ result.value.lines_changed = lines_changed
           /\ result.value.ok <=> lines_changed <= 120
           /\ lines_changed <= 120 => result.value.error = None
           /\ lines_changed >= 121 =>
                 result.value.error = ErrMsg("TooLarge", lines_changed)

\* an edit of exactly 120 lines was accepted
C4_Witness ==
    /\ ae.pc = "idle"
    /\ result.op = "validate_edit"
    /\ Occurrences(current_code, result.old_string) = 1
    /\ LinesCount(result.old_string) = 120
    /\ result.value.ok
    /\ result.value.lines_changed = 120

\* C5: apply_edit never commits an edit whose lines_changed, the larger of
\* the line counts of old_string and new_string, exceeds 120.
C5_ApplyEditRespectsCeiling ==
    (\/ ae.pc \in { "write_diagnostics", "emit_code_updated",
                    "emit_render_requested" }
     \/ (ae.pc = "return" /\ ae.value.success))
    => Max(LinesCount(ae.old_string), LinesCount(ae.new_string)) <= 120

\* C6: every apply_edit call first creates its checkpoint: until then the
\* Document is untouched, nothing is emitted and the verifier has not run;
\* from then on to its return, whatever the outcome, the history ends with
\* that one checkpoint, which holds the text and diagnostics from the start
\* of the call and change_type Ai, and the cursor is None.
C6_CheckpointFirst ==
    /\ ae.pc \in { "read_diagnostics", "lock_history", "create_checkpoint" }
       => /\ current_code = ae.current_code
          /\ ae.pc # "read_diagnostics" => diagnostics = ae.diagnostics
          /\ emitted = << >>
          /\ ae.compiled = ""
          /\ ae.checkpoint_id = None
    /\ ae.pc \in AfterCheckpoint
       => /\ ae.checkpoint_id # None
          /\ Len(checkpoints) > 0
          /\ LastCheckpoint.id = ae.checkpoint_id[1]
          /\ LastCheckpoint.code = ae.current_code
          /\ LastCheckpoint.diagnostics = ae.diagnostics
          /\ LastCheckpoint.change_type = "Ai"
          /\ Cardinality({i \in 1..Len(checkpoints) :
                            checkpoints[i].id = ae.checkpoint_id[1]}) = 1
          /\ next_id = ae.checkpoint_id[1] + 1
          /\ current_index = None

\* a rejected edit left its checkpoint behind, after a checkpoint of the user
C6_Witness ==
    /\ ae.pc = "return"
    /\ ae.value.error = ErrMsg("NewErrors", 0)
    /\ Len(checkpoints) = 2
    /\ checkpoints[1].change_type = "User"
    /\ LastCheckpoint.change_type = "Ai"
    /\ LastCheckpoint.code = current_code
    /\ ae.value.diagnostics = << E1 >>

\* apply_edit refuses this edit in its validation
FailsValidation(code, old_string) ==
    \/ Occurrences(code, old_string) = 0
    \/ MatchesCount(code, old_string) > 1

\* C7 as claimed: an apply_edit call that fails validation changes neither
\* the Document nor the history (checkpoints and cursor).
C7_NoSideEffects ==
    [][(/\ ae.pc # "idle"
        /\ FailsValidation(ae.current_code, ae.old_string))
       => UNCHANGED << current_code, diagnostics, checkpoints,
                       current_index >>]_vars

\* C7, amended: an apply_edit call that fails validation leaves the
\* Document as it was, runs no verifier and emits nothing; the history does
\* change: it ends with the checkpoint made at the start of the call and
\* the cursor is None.
C7_DocumentUntouched ==
    (/\ ae.pc \in AfterValidate
     /\ FailsValidation(ae.current_code, ae.old_string))
    => /\ ae.pc = "return"
       /\ ~ae.value.success
       /\ ae.value.checkpoint_id = None
       /\ DocumentAsSnapshot
       /\ ae.compiled = ""
       /\ emitted = << >>
       /\ LastCheckpoint.id = ae.checkpoint_id[1]
       /\ LastCheckpoint.code = current_code
       /\ current_index = None

\* a not-unique edit was refused and the history grew by its checkpoint
C7_Witness ==
    /\ ae.pc = "return"
    /\ ae.value.error = ErrMsg("NotUnique", 3)
    /\ current_code = T_aaa
    /\ Len(checkpoints) = 2
    /\ LastCheckpoint.change_type = "Ai"

\* C8: when the verifier cannot be invoked, apply_edit returns a failure
\* with no diagnostics, the Document is as before, and neither code-updated
\* nor render-requested is emitted.
C8_VerifierFailure ==
    ae.compiled = "Err"
    => /\ ae.pc \in { "compare", "return" }
       /\ DocumentAsSnapshot
       /\ emitted = << >>
       /\ ae.pc = "return"
          => ae.value = ApplyEditResult(FALSE,
                                        ErrMsg("TestCompileFailed", 0),
                                        << >>, None)

\* the verifier failed for an edit of a Document that holds an error
C8_Witness ==
    /\ ae.pc = "return"
    /\ ae.compiled = "Err"
    /\ ~ae.value.success
    /\ diagnostics = << E1 >>

\* C9: a committed apply_edit emits code-updated once and then
\* render-requested once, both after the Document holds the new text; an
\* apply_edit that does not commit emits nothing.
C9_EventsOnCommit ==
    /\ (ae.pc # "idle" /\ emitted # << >>)
       => /\ current_code = ae.new_code
          /\ diagnostics = ae.test_diagnostics
          /\ emitted[1] = [name |-> "code-updated", payload |-> ae.new_code]
          /\ ae.pc = "emit_render_requested" => Len(emitted) = 1
    /\ (ae.pc = "return" /\ ae.value.success)
       => emitted = << [name |-> "code-updated", payload |-> current_code],
                       [name |-> "render-requested", payload |-> << >>] >>
    /\ (ae.pc = "return" /\ ~ae.value.success)
       => emitted = << >>
    /\ (ae.pc = "return" /\ current_code # ae.current_code)
       => ae.value.success

\* both events of a committed edit are out
C9_Witness ==
    /\ ae.pc = "return"
    /\ ae.value.success
    /\ Len(emitted) = 2
    /\ current_code # ae.current_code

\* C10 as claimed: whenever no command is running, the diagnostics of the
\* Document are those that belong to its text.
C10_DiagnosticsOfText ==
    ae.pc = "idle" => diag_of = current_code

\* C10, amended: in the state a committed apply_edit or a render_preview
\* that built its output leaves behind, the diagnostics of the Document are
\* those of the build of its text; in the state a successful undo, redo or
\* restore_to_checkpoint leaves behind, text and diagnostics are the pair
\* stored in the checkpoint, the diagnostics being those the checkpoint
\* was created with.
C10_DiagnosticsOfTextAfterCommit ==
    ae.pc = "idle"
    => /\ (result.op = "apply_edit" /\ result.value.success)
          => /\ diag_of = current_code
             /\ diagnostics = result.value.diagnostics
       /\ (/\ result.op \in { "undo", "redo", "restore_to_checkpoint" }
           /\ result.ok)
          => /\ current_code = result.value.code
             /\ diagnostics = result.value.diagnostics
             /\ diag_of = checkpoint_diag_of[result.value.id]
       /\ (/\ result.op = "render_preview"
           /\ result.ok
           /\ result.cache = "MISS")
          => /\ diag_of = current_code
             /\ diagnostics = result.value.diagnostics

\* an undo put back a text together with its diagnostics
C10_Witness ==
    /\ ae.pc = "idle"
    /\ result.op = "undo"
    /\ result.ok
    /\ diagnostics # << >>
    /\ current_code = result.value.code

\* C11: the step of apply_edit that writes the candidate text finds in the
\* Document the text the candidate was computed from: no mutation made
\* while apply_edit ran is overwritten.
C11_CommitFromCurrentSnapshot ==
    [][(ae.pc = "write_code" /\ ae'.pc = "write_diagnostics")
       => current_code = ae.current_code]_vars

\* C12: create_checkpoint drops the checkpoints that lay after the cursor
\* and leaves the cursor None, so that the redo that comes next fails and
\* changes neither the history nor the Document: after undo and
\* create_checkpoint(X) there is nothing to redo.
C12_HistoryIsLinear ==
    [][/\ result'.op = "create_checkpoint"
          => /\ current_index' = None
             /\ LET kept == IF current_index = None THEN Len(checkpoints)
                             ELSE current_index[1] + 1
                IN  /\ Len(checkpoints') = kept + 1
                    /\ SubSeq(checkpoints', 1, kept) =
                          SubSeq(checkpoints, 1, kept)
                    /\ checkpoints'[kept + 1].id = result'.value
       /\ (result.op = "create_checkpoint" /\ result'.op = "redo")
          => /\ ~result'.ok
             /\ UNCHANGED << checkpoints, current_index, current_code,
                             diagnostics >>]_vars

\* a redo failed on a history whose middle checkpoint was dropped by the
\* create_checkpoint before it
C12_Witness ==
    /\ result.op = "redo"
    /\ ~result.ok
    /\ Len(checkpoints) = 2
    /\ checkpoints[1].id = 1
    /\ checkpoints[2].id = 3
    /\ current_index = None

\* C13: the history never holds more than 50 checkpoints and holds them
\* in the order of their creation; a create_checkpoint that finds 50
\* checkpoints to keep drops the oldest one of them, and no other, and
\* appends its own.
C13_BoundedHistory ==
    [][/\ Len(checkpoints') <= 50
       /\ \A i, j \in 1..Len(checkpoints') :
             i < j => checkpoints'[i].id < checkpoints'[j].id
       /\ result'.op = "create_checkpoint"
          => LET kept == IF current_index = None THEN checkpoints
                         ELSE SubSeq(checkpoints, 1, current_index[1] + 1)
             IN  /\ Len(kept) < 50
                    => SubSeq(checkpoints', 1, Len(kept)) = kept
                 /\ Len(kept) = 50
                    => /\ Len(checkpoints') = 50
                       /\ SubSeq(checkpoints', 1, 49) = Tail(kept)
                 /\ checkpoints'[Len(checkpoints')].id = result'.value]_vars

\* the 51st and 52nd checkpoint pushed out the first two
C13_Witness ==
    /\ Len(checkpoints) = 50
    /\ checkpoints[1].id = 3
    /\ checkpoints[50].id = 52
    /\ result.op = "create_checkpoint"

\* C14: undo fails and changes nothing when the history is empty, when the
\* cursor is None and there is at most one checkpoint, and when the cursor
\* is Some(0); otherwise it moves the cursor to Some(len-2) from None and
\* to Some(i-1) from Some(i) and returns the checkpoint there; it never
\* changes the sequence of checkpoints.
C14_Undo ==
    [][result'.op = "undo"
       => LET len == Len(checkpoints)
              target == IF current_index = << >> THEN len - 2
                        ELSE current_index[1] - 1
          IN  /\ checkpoints' = checkpoints
              /\ IF \/ len = 0
                     \/ (current_index = << >> /\ len <= 1)
                     \/ current_index = << 0 >>
                 THEN /\ ~result'.ok
                      /\ UNCHANGED << current_index, current_code,
                                      diagnostics >>
                 ELSE /\ result'.ok
                      /\ current_index' = << target >>
                      /\ result'.value = checkpoints[target + 1]]_vars

\* an undo moved the cursor from the second of three checkpoints to the first
C14_Witness ==
    /\ result.op = "undo"
    /\ result.ok
    /\ Len(checkpoints) = 3
    /\ current_index = << 0 >>
    /\ result.value = checkpoints[1]

\* C15: redo succeeds exactly when the cursor is Some(i): with i+1 < len it
\* moves the cursor to Some(i+1) and returns checkpoint i+1, with i+1 = len
\* it sets the cursor to None and returns the last checkpoint; with the
\* cursor None it fails and leaves cursor and sequence unchanged.  The
\* cursor never points past the sequence.
C15_Redo ==
    [][/\ current_index' # << >> => current_index'[1] < Len(checkpoints')
       /\ result'.op = "redo"
          => LET len == Len(checkpoints)
             IN  /\ checkpoints' = checkpoints
                 /\ IF current_index = << >>
                    THEN /\ ~result'.ok
                         /\ current_index' = current_index
                    ELSE /\ result'.ok
                         /\ current_index[1] + 1 < len
                            => /\ current_index' =
                                     << current_index[1] + 1 >>
                               /\ result'.value =
                                     checkpoints[current_index[1] + 2]
                         /\ current_index[1] + 1 = len
                            => /\ current_index' = << >>
                               /\ result'.value = checkpoints[len]]_vars

\* a redo went back to the head of three checkpoints and returned the last
C15_Witness ==
    /\ result.op = "redo"
    /\ result.ok
    /\ Len(checkpoints) = 3
    /\ current_index = << >>
    /\ result.value = checkpoints[3]
    /\ current_code = checkpoints[3].code

\* C16: restore_to_checkpoint(id) moves the cursor to the position of the
\* checkpoint with this id and returns that checkpoint, wherever the cursor
\* was; when no checkpoint of the sequence has the id (it was never handed
\* out, or its checkpoint was dropped) it fails and leaves cursor, sequence
\* and Document unchanged.
C16_RestoreTo ==
    [][\A id \in 1..next_id :
          restore_to_checkpoint(id)
          => LET at == {i \in 1..Len(checkpoints) : checkpoints[i].id = id}
             IN  /\ checkpoints' = checkpoints
                 /\ IF at = {}
                    THEN /\ ~result'.ok
                         /\ UNCHANGED << current_index, current_code,
                                         diagnostics >>
                    ELSE /\ result'.ok
                         /\ result'.value.id = id
                         /\ \E i \in at :
                               /\ current_index' = << i - 1 >>
                               /\ result'.value = checkpoints[i]]_vars

\* a restore moved the cursor to the first of four checkpoints
C16_Witness ==
    /\ result.op = "restore_to_checkpoint"
    /\ result.ok
    /\ Len(checkpoints) = 4
    /\ current_index = << 0 >>
    /\ result.value.id = 1
    /\ next_id = 5

\* C17: every successful undo, redo or restore_to_checkpoint sets the text
\* and the diagnostics of the Document to those of the checkpoint it
\* returns, which is the checkpoint under the new cursor, and emits
\* history:restore once, carrying that checkpoint; every failed one
\* leaves the Document unchanged and emits nothing.
C17_RestoreReachesDocument ==
    [][result'.op \in { "undo", "redo", "restore_to_checkpoint" }
       => IF result'.ok
          THEN /\ current_code' = result'.value.code
               /\ diagnostics' = result'.value.diagnostics
               /\ emitted' = << [name |-> "history:restore",
                                 payload |-> result'.value] >>
               /\ result'.value =
                     IF current_index' = << >>
                     THEN checkpoints'[Len(checkpoints')]
                     ELSE checkpoints'[current_index'[1] + 1]
          ELSE /\ UNCHANGED << current_code, diagnostics,
                               last_preview_path >>
               /\ emitted' = << >>]_vars

\* an undo replaced a text and its diagnostics by those of a checkpoint
C17_Witness ==
    /\ result.op = "undo"
    /\ result.ok
    /\ diagnostics = << W1, E2 >>
    /\ checkpoints[2].diagnostics = << E1 >>
    /\ Len(emitted) = 1
    /\ emitted[1].payload = checkpoints[1]

\* C18: whatever set, get, evict_old and deletions of artifact files came
\* before, get(key) returns an entry exactly when an entry is stored
\* under key, its version is the current cache version and its output
\* file exists at the time of the call, and then it is the stored entry;
\* in every other case it returns None; and get leaves the entries (and
\* the files) as they were.
C18_GetReturnsLiveEntries ==
    [][\A key \in CacheKeys :
         RenderCache_get(key)
         => /\ result'.value =
                  IF /\ key \in DOMAIN entries
                     /\ entries[key].version = CACHE_VERSION
                     /\ entries[key].output_path \in files
                  THEN << entries[key] >>
                  ELSE << >>
            /\ UNCHANGED << entries, files >>]_vars

\* get returned None for a key whose entry is stored but whose file has
\* been deleted, while the other key was evicted or never set
C18_Witness ==
    /\ result.op = "cache_get"
    /\ result.value = << >>
    /\ result.key \in DOMAIN entries
    /\ entries[result.key].version = CACHE_VERSION
    /\ entries[result.key].output_path \notin files
    /\ files # {}

\* C19: a get(key) that follows set(key, loc, kind, diags), whatever
\* happened to the files in between, returns an entry with exactly that
\* loc, kind and diags and the current version if the file at loc exists,
\* also when set replaced an entry stored under key, and returns None if
\* the file at loc does not exist.
C19_SetRoundTrip ==
    [][\A key \in CacheKeys :
         (result.op = "cache_set" /\ result.key = key
            /\ RenderCache_get(key))
         => IF result.output_path \in files
            THEN /\ Len(result'.value) = 1
                 /\ result'.value[1].output_path = result.output_path
                 /\ result'.value[1].kind = result.kind
                 /\ result'.value[1].diagnostics = result.diagnostics
                 /\ result'.value[1].version = CACHE_VERSION
            ELSE result'.value = << >>]_vars

\* set replaced an entry by one that differs in loc, kind and diags, the
\* file at loc exists, and the entry stored is the one that was set
C19_Witness ==
    /\ result.op = "cache_set"
    /\ result.replaced
    /\ result.output_path = "p2"
    /\ result.kind = "mesh"
    /\ result.diagnostics = << E1 >>
    /\ "p2" \in files
    /\ now = 1
    /\ entries[result.key].timestamp = 1
    /\ entries[result.key].output_path = "p2"

C21_EvictOlderThanMaxAge ==
    [][\A max_age_secs \in MaxAges :
         RenderCache_evict_old(max_age_secs)
         => /\ DOMAIN entries' =
                  {k \in DOMAIN entries :
                     now - entries[k].timestamp <= max_age_secs}
            /\ \A k \in DOMAIN entries' : entries'[k] = entries[k]]_vars

\* the lines of the input: the pieces between the "\n" characters, without
\* an empty piece after the last "\n"
RECURSIVE InputLines(_)
InputLines(stderr) ==
    IF Len(stderr) = 0 THEN << >>
    ELSE LET j == NextMatch(stderr, << "\n" >>, 0)
         IN  IF j < 0 THEN << stderr >>
             ELSE << SubSeq(stderr, 1, j) >>
                    \o InputLines(SubSeq(stderr, j + 2, Len(stderr)))

BeginsIgnoringCase(l, p) ==
    /\ Len(l) >= Len(p)
    /\ to_ascii_lowercase(SubSeq(l, 1, Len(p))) = p

\* the severity the prefix of l stands for, or "" if l has none of the
\* three prefixes
PrefixSeverity(l) ==
    IF BeginsIgnoringCase(l, << "e", "r", "r", "o", "r", ":" >>)
    THEN "Error"
    ELSE IF BeginsIgnoringCase(l, << "w", "a", "r", "n", "i", "n", "g",
                                     ":" >>)
    THEN "Warning"
    ELSE IF BeginsIgnoringCase(l, << "e", "c", "h", "o", ":" >>)
    THEN "Info"
    ELSE ""

\* the severities of the lines of ls that have a prefix, in order; with
\* trimmed, a line counts without its leading and trailing whitespace
RECURSIVE PrefixSeverities(_, _)
PrefixSeverities(ls, trimmed) ==
    IF Len(ls) = 0 THEN << >>
    ELSE LET l == IF trimmed THEN trim(Head(ls)) ELSE Head(ls)
         IN  (IF PrefixSeverity(l) = "" THEN << >>
              ELSE << PrefixSeverity(l) >>)
               \o PrefixSeverities(Tail(ls), trimmed)

SeveritiesOf(ds) == [i \in 1..Len(ds) |-> ds[i].severity]

\* C22 (as stated): parse_openscad_stderr yields one diagnostic for each
\* input line that begins, ignoring case, with ERROR:, WARNING: or ECHO:,
\* in input order, of severity Error, Warning and Info respectively, and
\* none for any other line.
C22_OneDiagnosticPerPrefixedLine ==
    result.op = "parse_openscad_stderr"
    => SeveritiesOf(result.value)
         = PrefixSeverities(InputLines(result.stderr), FALSE)

\* C22 (amended): the same, where a line begins with a prefix if it does
\* so once its leading and trailing whitespace is removed; a line of
\* whitespace only yields no diagnostic.
C22_OneDiagnosticPerTrimmedPrefixedLine ==
    result.op = "parse_openscad_stderr"
    => SeveritiesOf(result.value)
         = PrefixSeverities(InputLines(result.stderr), TRUE)

\* a lower-case echo: line gave an Info diagnostic and the indented ERROR:
\* line after it an Error diagnostic
C22_Witness ==
    /\ result.op = "parse_openscad_stderr"
    /\ InputLines(result.stderr) = << L_echo, L_indented >>
    /\ SeveritiesOf(result.value) = << "Info", "Error" >>

\* C23: create_checkpoint(X) with cursor Some(i) leaves old[0..=i]
\* followed by X, with cursor None it leaves the whole old sequence
\* followed by X, in both cases without the front element if that makes
\* more than 50; the cursor becomes None, X is the last element, it is
\* new, and its id is returned.
C23_CreateCheckpoint ==
    [][result'.op = "create_checkpoint"
       => LET X == checkpoints'[Len(checkpoints')]
              appended ==
                 IF current_index # None
                 THEN SubSeq(checkpoints, 1, current_index[1] + 1)
                        \o << X >>
                 ELSE checkpoints \o << X >>
          IN  /\ Len(checkpoints') > 0
              /\ checkpoints' = IF Len(appended) > MAX_CHECKPOINTS
                                THEN SubSeq(appended, 2, Len(appended))
                                ELSE appended
              /\ current_index' = None
              /\ X.id = result'.value
              /\ \A k \in 1..Len(checkpoints) : checkpoints[k].id # X.id]_vars

\* create_checkpoint found 50 checkpoints and the cursor on the 49th: it
\* kept 49 of them and appended its own, and nothing was evicted
C23_Witness ==
    /\ result.op = "create_checkpoint"
    /\ result.value = 51
    /\ current_index = None
    /\ Len(checkpoints) = 50
    /\ checkpoints[1].id = 1
    /\ checkpoints[49].id = 49
    /\ checkpoints[50].id = 51

\* the apply_edit that is about to return has written its candidate text
\* and the verifier's diagnostics into the Document
Committed ==
    /\ ae.compiled = "Ok"
    /\ current_code = ae.new_code
    /\ diagnostics = ae.test_diagnostics
    /\ current_code # ae.current_code

\* C24: apply_edit returns a checkpoint_id that is not null if and only if
\* it committed the edit; the id is that of the checkpoint the call
\* created at its start (the newest id, held by one checkpoint, the last
\* of the history), and that checkpoint holds the text the Document had
\* before the edit: replacing old_string in it gives the Document's text.
C24_CheckpointIdIffCommitted ==
    ae.pc = "return"
    => /\ ae.value.checkpoint_id # None <=> Committed
       /\ ae.value.success <=> Committed
       /\ Committed
          => /\ ae.value.checkpoint_id = << next_id - 1 >>
             /\ {i \in 1..Len(checkpoints) :
                    checkpoints[i].id = ae.value.checkpoint_id[1]}
                  = { Len(checkpoints) }
             /\ LastCheckpoint.description = "Before AI edit"
             /\ LastCheckpoint.code = ae.current_code
             /\ current_code = Replace(LastCheckpoint.code, ae.old_string,
                                       ae.new_string)

\* the second apply_edit of a behaviour committed and returns the id of
\* its own checkpoint, not that of the first
C24_Witness ==
    /\ ae.pc = "return"
    /\ ae.value.success
    /\ ae.value.checkpoint_id = << 2 >>
    /\ Len(checkpoints) = 2
    /\ checkpoints[1].change_type = "Ai"
    /\ checkpoints[2].code # current_code

\* C25: the text and the diagnostics of the Document change together: a
\* reader that calls get_current_code and then get_diagnostics while
\* apply_edit commits, and is given the new text, is given the new
\* diagnostics with it, never those the Document held before.
C25_TextAndDiagnosticsTogether ==
    [][(/\ result.op = "get_current_code"
        /\ result'.op = "get_diagnostics"
        /\ ae.pc \in { "write_diagnostics", "emit_code_updated",
                        "emit_render_requested", "return" }
        /\ ae' = ae
        /\ result.value = ae.new_code)
       => result'.value = ae.test_diagnostics]_vars

\* C26: wherever apply_edit is suspended (it waits for the verifier in
\* test_compile, or sleeps between its two events) it holds none of the
\* locks of the Document and of the history (it does hold the history
\* lock while it creates its checkpoint), so that the history commands
\* can take the lock during the external call.
C26_NoLockAcrossSuspension ==
    /\ ae.pc \in { "test_compile", "emit_render_requested" }
       => (ae.held = {} /\ HistoryUnlocked)
    /\ ae.held # {} <=> ae.pc = "create_checkpoint"

\* an undo went through while apply_edit was waiting for the verifier
C26_Witness ==
    /\ ae.pc = "test_compile"
    /\ result.op = "undo"
    /\ result.ok
    /\ ae.held = {}

\* C27: a query session sends a request only after a check of its flag
\* that found it clear, and run_ai_query executes a tool only in a chunk
\* whose check found it clear; the check at the top of a turn or at a
\* received chunk that finds the flag set makes the session return at
\* once, with no further request, no further tool call and neither a done
\* nor an error event; a session that has returned does nothing more.
C27_CancellationChecked ==
    [][/\ (ai.cancelled /\ (RunQueryTurn
                             \/ \E chunk \in { "text", "tool", "error" } :
                                   RunQueryChunk(chunk)))
          => /\ ai'.pc = "returned"
             /\ ai'.outcome = "cancelled"
             /\ ai'.requests = ai.requests
             /\ ai'.tools = ai.tools
       /\ (ai.pc # "idle" /\ ai'.requests > ai.requests) => ~ai.cancelled
       /\ (ai.provider = "anthropic" /\ ai'.tools > ai.tools)
          => ~ai.cancelled
       /\ (ai.pc = "returned" /\ ai'.pc = "returned")
          => /\ ai'.outcome = ai.outcome
             /\ ai'.requests = ai.requests
             /\ ai'.tools = ai.tools]_vars

\* a session was cancelled while its second response was streamed, after it
\* had executed a tool: it returned at the next chunk
C27_Witness ==
    /\ ai.pc = "returned"
    /\ ai.outcome = "cancelled"
    /\ ai.requests = 2
    /\ ai.chunks = 1
    /\ ai.tools = 1

DecimalDigits == << "0", "1", "2", "3", "4", "5", "6", "7", "8", "9" >>

IsDecimalDigit(c) == \E n \in 1..10 : DecimalDigits[n] = c

\* a `line <N>` token of m starts at position i and its digits at j: the
\* letters l, i, n, e, then whitespace up to j, then a digit
TokenAt(m, i, j) ==
    /\ i + 4 < j
    /\ j <= Len(m)
    /\ SubSeq(m, i, i + 3) = << "l", "i", "n", "e" >>
    /\ \A k \in (i + 4)..(j - 1) : m[k] \in { " ", "\t" }
    /\ IsDecimalDigit(m[j])

\* the digits of the token whose digits start at j: as many as follow
TokenDigits(m, j) ==
    LET last == CHOOSE k \in j..Len(m) :
                   /\ \A n \in j..k : IsDecimalDigit(m[n])
                   /\ k < Len(m) => ~IsDecimalDigit(m[k + 1])
    IN  SubSeq(m, j, last)

RECURSIVE WithoutLeadingZeros(_)
WithoutLeadingZeros(ds) ==
    IF Len(ds) > 1 /\ Head(ds) = "0" THEN WithoutLeadingZeros(Tail(ds))
    ELSE ds

\* the digit strings a and b have the same length and a is at most b
RECURSIVE DigitsAtMost(_, _)
DigitsAtMost(a, b) ==
    IF Len(a) = 0 THEN TRUE
    ELSE LET x == CHOOSE n \in 1..10 : DecimalDigits[n] = Head(a)
             y == CHOOSE n \in 1..10 : DecimalDigits[n] = Head(b)
         IN  x < y \/ (x = y /\ DigitsAtMost(Tail(a), Tail(b)))

\* the number written by ds fits a 32-bit signed integer
FitsI32(ds) ==
    LET z == WithoutLeadingZeros(ds)
    IN  \/ Len(z) < 10
        \/ /\ Len(z) = 10
           /\ DigitsAtMost(z, << "2", "1", "4", "7", "4", "8", "3", "6",
                                 "4", "7" >>)

RECURSIVE DecimalValue(_)
DecimalValue(ds) ==
    IF Len(ds) = 0 THEN 0
    ELSE 10 * DecimalValue(SubSeq(ds, 1, Len(ds) - 1))
           + (CHOOSE n \in 0..9 : DecimalDigits[n + 1] = ds[Len(ds)])

\* the line number the first `line <N>` token of m stands for
FirstLineToken(m) ==
    LET tokens == {t \in (1..Len(m)) \X (1..Len(m)) : TokenAt(m, t[1], t[2])}
    IN  IF tokens = {} THEN None
        ELSE LET t == CHOOSE x \in tokens : \A y \in tokens : x[1] <= y[1]
                 ds == TokenDigits(m, t[2])
             IN  IF FitsI32(ds) THEN Some(DecimalValue(ds)) ELSE None

\* C28: every diagnostic of parse_openscad_stderr has no col, and its line
\* is the number of the first `line <N>` token (the letters line,
\* whitespace, the digits 0 to 9) of its message, or absent when the
\* message has no such token or the digits of the first one do not fit an
\* i32.
C28_LineOfFirstToken ==
    result.op = "parse_openscad_stderr"
    => \A i \in 1..Len(result.value) :
          /\ result.value[i].col = None
          /\ result.value[i].line = FirstLineToken(result.value[i].message)

\* C29: a render_preview after which the output file of its request does
\* not exist returns an error, leaves the cache entries, the text of the
\* Document and last_preview_path as they were, whether or not an Error
\* diagnostic was parsed; and a render_preview changes the cache entries
\* only when it ran a build, the output file exists after it, and it
\* succeeds, and then only the entry under the key of the request.
C29_NoOutputNoEntry ==
    [][\A request \in BuildRequests, d \in DiagLists, w \in BOOLEAN,
          outcome \in { "io_error", "exec_error", "ran" } :
         (/\ outcome # "ran" => (d = << >> /\ ~w)
          /\ render_preview(request, outcome, d, w))
         => /\ BuildOutput(request).path \notin files'
               => /\ ~result'.ok
                  /\ UNCHANGED << entries, current_code, last_preview_path >>
            /\ entries' # entries
               => /\ outcome = "ran"
                  /\ result'.cache = "MISS"
                  /\ result'.ok
                  /\ BuildOutput(request).path \in files'
                  /\ \A key \in DOMAIN entries :
                        key # BuildKey(request)
                        => key \in DOMAIN entries' /\ entries'[key] = entries[key]]_vars

\* a build without Error diagnostics left no output file: the render
\* failed, the stale entry under its key, whose file was deleted, is the
\* one an earlier build stored, and the Document has the text and the
\* preview of the other view
C29_Witness ==
    /\ result.op = "render_preview"
    /\ ~result.ok
    /\ result.value = [error |-> "no_output"]
    /\ DOMAIN entries = { BuildKey(r) : r \in BuildRequests }
    /\ \E r \in BuildRequests :
          /\ BuildOutput(r).path \notin files
          /\ last_preview_path # BuildOutput(r).path
    /\ last_preview_path # << >>
    /\ current_code = T_ab

CheckpointIdsNow == { checkpoints[i].id : i \in 1..Len(checkpoints) }

\* C30: get_checkpoint_diff(from_id, to_id) succeeds exactly when both ids
\* are ids of checkpoints in the sequence at the time of the call, and it
\* changes neither the checkpoints, nor the cursor, nor the Document.
C30_DiffOfPresentIds ==
    [][(result'.op = "get_checkpoint_diff" /\ result' # result)
       => /\ result'.ok <=> /\ result'.from_id \in CheckpointIdsNow
                            /\ result'.to_id \in CheckpointIdsNow
          /\ UNCHANGED << checkpoints, current_index, current_code,
                          diagnostics, last_preview_path >>]_vars

\* the diff from id 50, truncated by the checkpoint made after an undo, to
\* id 52 failed, in a history that has also lost id 1 to the capacity
C30_Witness ==
    /\ result.op = "get_checkpoint_diff"
    /\ ~result.ok
    /\ result.from_id = MAX_CHECKPOINTS
    /\ result.to_id = MAX_CHECKPOINTS + 2
    /\ MAX_CHECKPOINTS \notin CheckpointIdsNow
    /\ { MAX_CHECKPOINTS - 1, MAX_CHECKPOINTS + 1, MAX_CHECKPOINTS + 2 }
          \subseteq CheckpointIdsNow
    /\ 1 \notin CheckpointIdsNow
    /\ Len(checkpoints) = MAX_CHECKPOINTS

\* C31: in every state reached by create_checkpoint, undo, redo,
\* restore_to and clear, a cursor Some(i) has i < len, and so can_redo does
\* not underflow and the cursor is the position of a checkpoint.
C31_CursorInRange ==
    /\ current_index # None
       => /\ current_index[1] >= 0
          /\ current_index[1] < Len(checkpoints)
    /\ ~History_can_redo(checkpoints, current_index).underflow

\* the cursor is on the last of 50 checkpoints of a history that has
\* evicted its oldest one
C31_Witness ==
    /\ Len(checkpoints) = MAX_CHECKPOINTS
    /\ current_index = << MAX_CHECKPOINTS - 1 >>
    /\ checkpoints[1].id > 1

\* C32: an undo that follows can_undo at once succeeds exactly when
\* can_undo returned true, a redo that follows can_redo at once succeeds
\* exactly when can_redo returned true, and can_undo and can_redo return
\* without changing the history or the Document.
C32_CanUndoCanRedo ==
    [][/\ (result.op = "can_undo" /\ result'.op = "undo")
          => result'.ok = result.value
       /\ (result.op = "can_redo" /\ result'.op = "redo")
          => result'.ok = result.value
       /\ result'.op \in { "can_undo", "can_redo" }
          => /\ result'.ok
             /\ UNCHANGED << checkpoints, current_index, current_code,
                             diagnostics, last_preview_path >>]_vars

\* can_redo returned true with the cursor on the last of 50 checkpoints
C32_Witness ==
    /\ result.op = "can_redo"
    /\ result.value
    /\ Len(checkpoints) = MAX_CHECKPOINTS
    /\ current_index = << MAX_CHECKPOINTS - 1 >>

\* the Document text after a redo command issued now: the code of the
\* checkpoint redo returns, or the present text when redo fails
TextAfterRedo ==
    LET r == History_redo(checkpoints, current_index)
    IN  IF r.ok THEN checkpoints[r.at + 1].code ELSE current_code

\* C33: when apply_edit has just committed, the cursor is None and the
\* history has at least two checkpoints, an undo followed at once by a
\* redo leaves the Document text it had before the undo.
C33_UndoRedoInverse ==
    [][(/\ result.op = "apply_edit"
        /\ result.value.success
        /\ ae.pc = "idle"
        /\ current_index = None
        /\ Len(checkpoints) >= 2
        /\ result'.op = "undo"
        /\ result'.ok)
       => TextAfterRedo' = current_code]_vars

\* thread t can take its next step, or waits for a lock whose holder can
\* (a chain of at most n waits)
RECURSIVE CanProceed(_, _)
CanProceed(t, n) ==
    \/ Requested(t) = ""
    \/ Owners(Requested(t)) = {}
    \/ /\ n > 0
       /\ \E u \in Owners(Requested(t)) : u # t /\ CanProceed(u, n - 1)

\* C34: in every interleaving of the commands, no thread asks for the
\* history lock while it holds a lock of a Document field, no thread holds
\* two locks of Document fields, and every thread in a command can take
\* its next step or waits for a lock at the end of a chain of threads of
\* which the last can take its next step: there is no deadlock.
C34_NoDeadlock ==
    \A t \in Threads :
       /\ Requested(t) = "history" => Held(t) \cap DocumentLocks = {}
       /\ Cardinality(Held(t) \cap DocumentLocks) <= 1
       /\ Requested(t) \in DocumentLocks => Held(t) \cap DocumentLocks = {}
       /\ threads[t].cmd # "idle" => CanProceed(t, MaxThreads)

\* an undo that holds the history lock waits for the diagnostics, which an
\* apply_edit on its way to the history lock holds
C34_Witness ==
    \E t \in Threads, u \in Threads :
       /\ threads[t].cmd = "undo"
       /\ Held(t) = { "history" }
       /\ Requested(t) = "diagnostics"
       /\ threads[u].cmd = "apply_edit"
       /\ Held(u) = { "diagnostics" }
       /\ threads[u].pc = 4

\* C35: after every successful render_preview, answered from the cache or
\* by a build, current_code is the source of the request, diagnostics are
\* the diagnostics returned and last_preview_path is the path returned.
C35_HitLikeBuild ==
    [][\A request \in BuildRequests, d \in DiagLists, w \in BOOLEAN :
         (render_preview(request, "ran", d, w) /\ result'.ok)
         => /\ current_code' = request.source
            /\ diagnostics' = result'.value.diagnostics
            /\ last_preview_path' = result'.value.path]_vars

\* the inputs of a request that the arguments of the OpenSCAD process and
\* its output file depend on: the image size counts for a 3D image only,
\* and is 800x600 when the request has none
OutputAffectingInputs(request) ==
    LET view == UnwrapOr(request.view, "ThreeD")
        render_mesh == UnwrapOr(request.render_mesh, FALSE)
    IN  [source |-> request.source,
         backend |-> UnwrapOr(request.backend, "Auto"),
         view |-> view,
         render_mesh |-> render_mesh,
         size |-> IF view = "ThreeD" /\ ~render_mesh
                  THEN UnwrapOr(request.size, [w |-> 800, h |-> 600])
                  ELSE [w |-> 0, h |-> 0]]

\* C36: when a build for request r1 has just produced an artifact, a
\* request r2 that differs from r1 in source, backend, view, mesh flag or
\* image size is not answered from the cache with that artifact.
C36_CachedForEqualInputs ==
    [][\A r1 \in BuildRequests, r2 \in BuildRequests, d \in DiagLists :
         (/\ render_preview(r1, "ran", d, TRUE)
          /\ result'.ok
          /\ result'.cache = "MISS"
          /\ OutputAffectingInputs(r1) # OutputAffectingInputs(r2))
         => LET cached == Cache_get(entries', files', BuildKey(r2))
            IN  cached = None \/ cached[1].output_path # result'.value.path]_vars

\* C37: when cancel_ai_stream returns, the flag of the running session and
\* the flags of the sessions that were running when a later send_ai_query
\* was issued are set.
C37_CancelReachesEverySession ==
    [][cancel_ai_stream
       => /\ AiRunning => ai'.cancelled
          /\ \A i \in 1..Len(ai'.earlier) : ai'.earlier[i].cancelled]_vars

\* C38: once the flag of a session is set, the session begins no tool
\* call, in the loop of run_ai_query and in the loop of run_openai_query,
\* the calls accumulated from the stream included.
C38_NoToolAfterCancel ==
    [][(ai.pc # "idle" /\ ai'.tools > ai.tools) => ~ai.cancelled]_vars

\* C39: the tool calls of one OpenAI turn are executed in ascending index
\* order.
C39_ToolCallsInIndexOrder ==
    \A i \in 1..Len(ai.executed) : ai.executed[i] = i - 1

====
